---- MODULE Spec2Model ----
(***************************************************************************)
(* SlideTrans: the formatting-preserving translation pipeline              *)
(* (src/src/pptx_processor.py, src/src/translator.py) and the layout       *)
(* reflow engine (src/src/layout_adjuster.py), driven by src/main.py.      *)
(*                                                                         *)
(* Conventions of the model                                                *)
(*  - a Python str is a sequence of one-character strings; the vertical    *)
(*    tab, which TLA+ cannot write, is the atom VT;                        *)
(*  - None is the empty tuple << >>, a present value v is <<v>>;           *)
(*  - a float holding a font size or a brightness is the integer number of *)
(*    hundredths it denotes (12.0 -> 1200, 0.5 -> 50);                     *)
(*  - markup is a sequence of items: a text character, or a tag that       *)
(*    html.parser has lexed (open, close, self-closing); building the tag  *)
(*    text and lexing it again are taken as inverse, everything the code   *)
(*    itself computes (escaping, attribute values, parsing them back, the  *)
(*    style stack) is modelled character by character.                     *)
(***************************************************************************)
EXTENDS Integers, Sequences, FiniteSets, TLC

None == << >>
Some(v) == <<v>>
IsNone(o) == o = << >>
Val(o) == o[1]

VT == "\\x0b"
CR == "\r"
LF == "\n"

Min(a, b) == IF a < b THEN a ELSE b
Max(a, b) == IF a > b THEN a ELSE b

RECURSIVE Concat(_)
Concat(ss) == IF ss = << >> THEN << >> ELSE Head(ss) \o Concat(Tail(ss))

RECURSIVE SpanLen(_, _)
SpanLen(s, S) ==
  IF s # << >> /\ Head(s) \in S THEN 1 + SpanLen(Tail(s), S) ELSE 0

RECURSIVE SpanLenNot(_, _)
SpanLenNot(s, S) ==
  IF s # << >> /\ Head(s) \notin S THEN 1 + SpanLenNot(Tail(s), S) ELSE 0

Drop(s, n) == SubSeq(s, n + 1, Len(s))
Take(s, n) == SubSeq(s, 1, n)
StartsWith(s, p) == Len(s) >= Len(p) /\ Take(s, Len(p)) = p

(***************************************************************************)
(* str.replace(old, new) on character sequences; new is a sequence of      *)
(* markup items or characters.                                             *)
(***************************************************************************)
RECURSIVE Replace(_, _, _)
Replace(s, old, new) ==
  IF s = << >> THEN << >>
  ELSE IF StartsWith(s, old) THEN new \o Replace(Drop(s, Len(old)), old, new)
  ELSE <<Head(s)>> \o Replace(Tail(s), old, new)

(***************************************************************************)
(* Digits, int() and float() of Python on the strings the codec exchanges. *)
(***************************************************************************)
Digits == {"0", "1", "2", "3", "4", "5", "6", "7", "8", "9"}
DigitVal(c) ==
  CASE c = "0" -> 0 [] c = "1" -> 1 [] c = "2" -> 2 [] c = "3" -> 3
    [] c = "4" -> 4 [] c = "5" -> 5 [] c = "6" -> 6 [] c = "7" -> 7
    [] c = "8" -> 8 [] c = "9" -> 9
    [] c \in {"a", "A"} -> 10 [] c \in {"b", "B"} -> 11
    [] c \in {"c", "C"} -> 12 [] c \in {"d", "D"} -> 13
    [] c \in {"e", "E"} -> 14 [] c \in {"f", "F"} -> 15
HexDigits == Digits \cup {"a", "b", "c", "d", "e", "f", "A", "B", "C", "D", "E", "F"}
DigitChar(d) == <<"0", "1", "2", "3", "4", "5", "6", "7", "8", "9">>[d + 1]

RECURSIVE NatToStr(_)
NatToStr(n) ==
  IF n < 10 THEN <<DigitChar(n)>> ELSE NatToStr(n \div 10) \o <<DigitChar(n % 10)>>

\* str(n) of an int
IntToStr(n) == IF n < 0 THEN <<"-">> \o NatToStr(0 - n) ELSE NatToStr(n)

RECURSIVE StrToNat(_, _, _)
StrToNat(s, base, acc) ==
  IF s = << >> THEN acc ELSE StrToNat(Tail(s), base, acc * base + DigitVal(Head(s)))

\* str(x) of a float with at most two decimals, x given in hundredths:
\* 50 -> "0.5", -25 -> "-0.25", 100 -> "1.0"
FloatToStr(h) ==
  LET a == IF h < 0 THEN 0 - h ELSE h
      frac == a % 100
      fs == IF frac % 10 = 0 THEN <<DigitChar(frac \div 10)>>
            ELSE <<DigitChar(frac \div 10), DigitChar(frac % 10)>>
  IN (IF h < 0 THEN <<"-">> ELSE << >>) \o NatToStr(a \div 100) \o <<".">> \o fs

Unsigned(s) == IF s # << >> /\ Head(s) \in {"-", "+"} THEN Tail(s) ELSE s
Negative(s) == s # << >> /\ Head(s) = "-"

\* int(s): None for the ValueError, otherwise the value
ParseInt(s) ==
  LET u == Unsigned(s)
  IN IF u # << >> /\ SpanLen(u, Digits) = Len(u)
     THEN Some((IF Negative(s) THEN -1 ELSE 1) * StrToNat(u, 10, 0))
     ELSE None

\* float(s), in hundredths: None for the ValueError. The strings of the model
\* are decimal numerals with at most two decimals (and everything that is no
\* numeral at all).
ParseFloat(s) ==
  LET u == Unsigned(s)
      ip == SpanLen(u, Digits)
      rest == Drop(u, ip)
      fr == IF rest # << >> /\ Head(rest) = "." THEN Tail(rest) ELSE << >>
      ok == /\ u # << >>
            /\ \/ rest = << >> /\ ip > 0
               \/ /\ rest # << >> /\ Head(rest) = "."
                  /\ SpanLen(fr, Digits) = Len(fr)
                  /\ Len(fr) <= 2
                  /\ ip + Len(fr) > 0
      fv == IF Len(fr) = 0 THEN 0
            ELSE IF Len(fr) = 1 THEN 10 * DigitVal(fr[1])
            ELSE 10 * DigitVal(fr[1]) + DigitVal(fr[2])
  IN IF ok
     THEN Some((IF Negative(s) THEN -1 ELSE 1) * (100 * StrToNat(Take(u, ip), 10, 0) + fv))
     ELSE None

UpperChar(c) ==
  CASE c = "a" -> "A" [] c = "b" -> "B" [] c = "c" -> "C" [] c = "d" -> "D"
    [] c = "e" -> "E" [] c = "f" -> "F" [] c = "t" -> "T" [] c = "l" -> "L"
    [] c = "x" -> "X" [] OTHER -> c
Upper(s) == [i \in 1..Len(s) |-> UpperChar(s[i])]

(***************************************************************************)
(* Python floats. A float is a binary64 number: a sign, a whole number of  *)
(* 53 bits and a power of two. The whole number outgrows a machine word,   *)
(* so it is kept as the sequence of its digits in base 2^14, lowest first. *)
(* Every operation gives the exact result rounded to the nearest float,    *)
(* to the one with the even last bit when two are as near, as the          *)
(* processor does. The numbers of the program stay far from the least and  *)
(* the greatest float.                                                     *)
(***************************************************************************)
\* TRUE; v is computed where this is written, as Python computes the operands
\* of an operation before the operation
Known(v) == v = v

\* the bits of the mantissa of a float
MantBits == 53
\* a mantissa and its guard bits fill four limbs
LimbBits == (MantBits + 3) \div 4
Limb == 2^LimbBits

RECURSIVE NatOf(_)
\* the digits of the natural number n
NatOf(n) == IF n = 0 THEN << >> ELSE <<n % Limb>> \o NatOf(n \div Limb)

RECURSIVE NatVal(_)
\* the number of the digits a, when a machine word holds it
NatVal(a) == IF a = << >> THEN 0 ELSE a[1] + Limb * NatVal(Tail(a))

RECURSIVE NatTrim(_)
\* a without its leading zero digits
NatTrim(a) ==
  IF a = << >> \/ a[Len(a)] # 0 THEN a ELSE NatTrim(SubSeq(a, 1, Len(a) - 1))

NatDigit(a, i) == IF i >= 1 /\ i <= Len(a) THEN a[i] ELSE 0

RECURSIVE NatAdd(_, _, _)
\* a + b + carry
NatAdd(a, b, carry) ==
  IF a = << >> /\ b = << >> THEN NatOf(carry)
  ELSE <<(NatDigit(a, 1) + NatDigit(b, 1) + carry) % Limb>>
       \o NatAdd(IF a = << >> THEN a ELSE Tail(a), IF b = << >> THEN b ELSE Tail(b),
                 (NatDigit(a, 1) + NatDigit(b, 1) + carry) \div Limb)

RECURSIVE NatSubtract(_, _, _)
NatSubtract(a, b, borrow) ==
  IF a = << >> THEN << >>
  ELSE <<(a[1] - NatDigit(b, 1) - borrow) % Limb>>
       \o NatSubtract(Tail(a), IF b = << >> THEN b ELSE Tail(b),
                      IF a[1] - NatDigit(b, 1) - borrow < 0 THEN 1 ELSE 0)
\* a - b, for a >= b
NatSub(a, b) == NatTrim(NatSubtract(a, b, 0))

RECURSIVE NatScale(_, _, _)
\* a * d + carry, for a digit d
NatScale(a, d, carry) ==
  IF a = << >> THEN NatOf(carry)
  ELSE <<(a[1] * d + carry) % Limb>> \o NatScale(Tail(a), d, (a[1] * d + carry) \div Limb)

RECURSIVE NatMul(_, _)
NatMul(a, b) ==
  IF b = << >> THEN << >>
  ELSE NatAdd(NatScale(a, b[1], 0), <<0>> \o NatMul(a, Tail(b)), 0)

\* a < b, for a and b without leading zero digits
NatLess(a, b) ==
  \/ Len(a) < Len(b)
  \/ /\ Len(a) = Len(b)
     /\ \E i \in 1..Len(a) : a[i] < b[i] /\ \A j \in (i + 1)..Len(a) : a[j] = b[j]

\* the number of bits of a digit
WordBits(n) == CHOOSE k \in 0..LimbBits : n < 2 ^ k /\ (k = 0 \/ n >= 2 ^ (k - 1))
NatBits(a) == IF a = << >> THEN 0 ELSE LimbBits * (Len(a) - 1) + WordBits(a[Len(a)])

\* a * 2^k
NatShl(a, k) ==
  IF a = << >> THEN a
  ELSE [i \in 1..(k \div LimbBits) |-> 0] \o NatTrim(NatScale(a, 2 ^ (k % LimbBits), 0))
\* a \div 2^k
NatShr(a, k) ==
  LET q == k \div LimbBits
      r == k % LimbBits
  IN NatTrim([i \in 1..(Len(a) - q) |->
                (a[i + q] \div 2 ^ r) + (NatDigit(a, i + q + 1) % 2 ^ r) * 2 ^ (LimbBits - r)])
\* bit k of a, the lowest being bit 0
NatBit(a, k) == (NatDigit(a, k \div LimbBits + 1) \div 2 ^ (k % LimbBits)) % 2
\* a % 2^k = 0
NatLowZero(a, k) ==
  /\ \A i \in 1..(k \div LimbBits) : NatDigit(a, i) = 0
  /\ NatDigit(a, k \div LimbBits + 1) % 2 ^ (k % LimbBits) = 0

RECURSIVE DigitFit(_, _, _)
\* the largest q at or below guess with d * q <= r
DigitFit(d, r, guess) ==
  IF NatLess(r, NatTrim(NatScale(d, guess, 0))) THEN DigitFit(d, r, guess - 1) ELSE guess

RECURSIVE LongDivision(_, _, _, _, _)
\* the digit of the quotient is found: what is left of s goes on to the next
NextDigit(a, d, i, q, s, digit) ==
  CASE Known(digit) ->
    LongDivision(a, d, i - 1, <<digit>> \o q, NatSub(s, NatTrim(NatScale(d, digit, 0))))
\* s is the remainder with the digit a[i] brought down to it
BroughtDown(a, d, i, q, s) ==
  CASE Known(s) ->
    NextDigit(a, d, i, q, s,
              DigitFit(d, s, Min(Limb - 1,
                                 (NatDigit(s, Len(d) + 1) * Limb + NatDigit(s, Len(d)))
                                   \div d[Len(d)])))
\* the digits a[1..i] are brought down one by one to the remainder r; d has
\* its highest bit set in its highest digit
LongDivision(a, d, i, q, r) ==
  IF i = 0 THEN [q |-> NatTrim(q), r |-> r]
  ELSE BroughtDown(a, d, i, q, NatTrim(<<a[i]>> \o r))

\* the division from the first digit of the quotient on
DivideFrom(n, d, i) == LongDivision(n, d, i, << >>, NatTrim(SubSeq(n, i + 1, Len(n))))
Divide(n, d) == DivideFrom(n, d, Max(0, Len(n) - Len(d) + 1))
\* the quotient and the remainder of a by d, d not zero; the remainder is
\* that of a * 2^k by d * 2^k, the k that sets the highest bit of d
NatDivMod(a, d) ==
  Divide(NatShl(a, LimbBits - WordBits(d[Len(d)])), NatShl(d, LimbBits - WordBits(d[Len(d)])))

RECURSIVE NewtonRoot(_, _)
Closer(a, x, y) == IF NatLess(y, x) THEN NewtonRoot(a, y) ELSE x
\* the whole part of the square root of a, from an x above it
NewtonRoot(a, x) == Closer(a, x, NatShr(NatAdd(x, NatDivMod(a, x).q, 0), 1))
NatRoot(a) == IF a = << >> THEN a ELSE NewtonRoot(a, NatShl(<<1>>, (NatBits(a) + 1) \div 2))

Float(sign, m, e) == [sign |-> sign, m |-> m, e |-> e]
Zero == Float(1, << >>, 0)

\* q, or q + 1 when the bits cut off q are above a half, or are a half and q
\* is odd
Nearest(q, half, above) ==
  IF half /\ (above \/ NatBit(q, 0) = 1) THEN NatTrim(NatAdd(q, <<1>>, 0)) ELSE q
\* the float of the mantissa m, which rounding up may have made a bit longer
Carried(sign, m, e) ==
  IF NatBits(m) > MantBits THEN Float(sign, NatShr(m, 1), e + 1) ELSE Float(sign, m, e)
\* n has k bits more than a mantissa
RoundedBy(sign, n, e, more, k) ==
  IF k <= 0 THEN Float(sign, NatShl(n, 0 - k), e + k)
  ELSE Carried(sign,
               Nearest(NatShr(n, k), NatBit(n, k - 1) = 1, more \/ ~NatLowZero(n, k - 1)),
               e + k)
\* the float nearest to sign * n * 2^e, or to a number just above n * 2^e in
\* size when more is set
Rounded(sign, n, e, more) ==
  IF n = << >> THEN Zero ELSE RoundedBy(sign, n, e, more, NatBits(n) - MantBits)

\* the float of a number of fewer bits than a mantissa has
Exact(sign, n) ==
  IF n = << >> THEN Zero ELSE Float(sign, NatShl(n, MantBits - NatBits(n)), NatBits(n) - MantBits)
\* float(n) of an int
FloatOf(n) == Exact(IF n < 0 THEN -1 ELSE 1, NatOf(IF n < 0 THEN 0 - n ELSE n))

\* x * y
FloatMul(x, y) ==
  IF x.m = << >> \/ y.m = << >> THEN Zero
  ELSE Rounded(x.sign * y.sign, NatTrim(NatMul(x.m, y.m)), x.e + y.e, FALSE)

Quotient(sign, d, e) == Rounded(sign, d.q, e, d.r # << >>)
\* x / y, y not zero
FloatDiv(x, y) ==
  IF x.m = << >> THEN Zero
  ELSE Quotient(x.sign * y.sign, NatDivMod(NatShl(x.m, MantBits + 3), y.m),
                x.e - y.e - (MantBits + 3))

\* x + y, for x and y of one sign
FloatAdd(x, y) ==
  LET hi == IF x.e >= y.e THEN x ELSE y
      lo == IF x.e >= y.e THEN y ELSE x
  IN IF x.m = << >> THEN y
     ELSE IF y.m = << >> THEN x
     ELSE IF hi.e - lo.e > MantBits + 2 THEN hi
     ELSE Rounded(hi.sign, NatTrim(NatAdd(NatShl(hi.m, hi.e - lo.e), lo.m, 0)), lo.e, FALSE)

RootOf(n, root, e) == Rounded(1, root, e, NatTrim(NatMul(root, root)) # n)
RootFrom(n, e) == RootOf(n, NatRoot(n), e)
\* math.sqrt(x), x not below zero
FloatSqrt(x) ==
  IF x.m = << >> THEN Zero
  ELSE RootFrom(NatShl(x.m, MantBits + 3 + (x.e % 2)),
                (x.e - (x.e % 2) - (MantBits + 3)) \div 2)

\* x < y
FloatLess(x, y) ==
  IF x.sign # y.sign THEN x.sign < y.sign
  ELSE IF x.m = << >> THEN y.m # << >> /\ y.sign = 1
  ELSE IF y.m = << >> THEN x.sign = -1
  ELSE IF x.sign = 1 THEN x.e < y.e \/ (x.e = y.e /\ NatLess(x.m, y.m))
  ELSE y.e < x.e \/ (x.e = y.e /\ NatLess(y.m, x.m))

\* the whole part of the size of x, and whether x is a whole number
Whole(x) == IF x.e >= 0 THEN NatVal(NatShl(x.m, x.e)) ELSE NatVal(NatShr(x.m, 0 - x.e))
IsWhole(x) == x.e >= 0 \/ NatLowZero(x.m, 0 - x.e)
\* int(x)
FloatInt(x) == x.sign * Whole(x)
\* math.ceil(x)
FloatCeil(x) == IF x.sign = 1 /\ ~IsWhole(x) THEN Whole(x) + 1 ELSE x.sign * Whole(x)

\* the float of a decimal numeral with two decimals, h its hundredths
Hundredths(h) == FloatDiv(FloatOf(h), FloatOf(100))

\* pptx.util.Pt(points): int(points * 12700), a length in EMU
Pt(points) == FloatInt(FloatMul(points, FloatOf(12700)))
\* the hundredths of a point that a font keeps of a size set in EMU
Centipoints(emu) == emu \div 127
\* Length.pt of a font size of so many hundredths: size * 127 / 12700
PointsOf(size) == FloatDiv(FloatOf(size * 127), FloatOf(12700))


(***************************************************************************)
(* html.escape(s) and html.unescape(s) of the standard library.            *)
(***************************************************************************)
EscapeChar(c) ==
  CASE c = "&" -> <<"&", "a", "m", "p", ";">>
    [] c = "<" -> <<"&", "l", "t", ";">>
    [] c = ">" -> <<"&", "g", "t", ";">>
    [] c = "\"" -> <<"&", "q", "u", "o", "t", ";">>
    [] c = "'" -> <<"&", "#", "x", "2", "7", ";">>
    [] OTHER -> <<c>>

RECURSIVE html_escape(_)
html_escape(s) ==
  IF s = << >> THEN << >> ELSE EscapeChar(Head(s)) \o html_escape(Tail(s))

\* The named references that can be spelled with the letters of the model's
\* alphabets (html.entities.html5 restricted to them).
Html5 ==
  (<<"a", "m", "p", ";">> :> <<"&">>) @@ (<<"a", "m", "p">> :> <<"&">>) @@
  (<<"l", "t", ";">> :> <<"<">>) @@ (<<"l", "t">> :> <<"<">>) @@
  (<<"g", "t", ";">> :> <<">">>) @@ (<<"g", "t">> :> <<">">>) @@
  (<<"q", "u", "o", "t", ";">> :> <<"\"">>) @@ (<<"q", "u", "o", "t">> :> <<"\"">>) @@
  (<<"l", "l", ";">> :> <<"U+226A">>)

\* chr(num) for the code points the model's alphabets can name
CodeChar(num) ==
  CASE num = 39 -> <<"'">> [] num = 38 -> <<"&">> [] num = 60 -> <<"<">>
    [] num = 62 -> <<">">> [] num = 34 -> <<"\"">> [] num = 0 -> <<"U+FFFD">>
    [] OTHER -> <<"U+?">>

\* characters that cannot be part of a named reference
RefStop == {"\t", "\n", "\f", " ", "<", "&", "#", ";"}

OptSemi(s, n) == IF Len(s) > n /\ s[n + 1] = ";" THEN n + 1 ELSE n

\* length of the match of the reference body (group 1 of html._charref) at
\* the start of r, the text after an ampersand; 0 when nothing matches
CharrefMatch(r) ==
  IF r = << >> THEN 0
  ELSE IF Head(r) = "#"
  THEN LET d == SpanLen(Tail(r), Digits)
           h == IF Len(r) >= 2 /\ r[2] \in {"x", "X"}
                THEN SpanLen(Drop(r, 2), HexDigits) ELSE 0
       IN IF d >= 1 THEN OptSemi(r, 1 + d)
          ELSE IF h >= 1 THEN OptSemi(r, 2 + h)
          ELSE 0
  ELSE LET n == Min(32, SpanLenNot(r, RefStop))
       IN IF n >= 1 THEN OptSemi(r, n) ELSE 0

RECURSIVE LongestPrefix(_, _)
\* the largest x in 2..n with s[:x] a known reference, 0 when there is none
LongestPrefix(s, n) ==
  IF n < 2 THEN 0
  ELSE IF Take(s, n) \in DOMAIN Html5 THEN n
  ELSE LongestPrefix(s, n - 1)

RStripSemi(s) == IF s # << >> /\ s[Len(s)] = ";" THEN Take(s, Len(s) - 1) ELSE s

replace_charref(s) ==
  IF Head(s) = "#"
  THEN IF s[2] \in {"x", "X"}
       THEN CodeChar(StrToNat(RStripSemi(Drop(s, 2)), 16, 0))
       ELSE CodeChar(StrToNat(RStripSemi(Drop(s, 1)), 10, 0))
  ELSE IF s \in DOMAIN Html5 THEN Html5[s]
  ELSE LET x == LongestPrefix(s, Len(s) - 1)
       IN IF x > 0 THEN Html5[Take(s, x)] \o Drop(s, x) ELSE <<"&">> \o s

RECURSIVE html_unescape(_)
html_unescape(s) ==
  IF s = << >> THEN << >>
  ELSE IF Head(s) # "&" THEN <<Head(s)>> \o html_unescape(Tail(s))
  ELSE LET m == CharrefMatch(Tail(s))
       IN IF m = 0 THEN <<"&">> \o html_unescape(Tail(s))
          ELSE replace_charref(SubSeq(s, 2, m + 1)) \o html_unescape(Drop(s, m + 1))

(***************************************************************************)
(* Markup items.                                                           *)
(***************************************************************************)
Ch(c) == [k |-> "ch", c |-> c, tag |-> "", attrs |-> << >>]
TextItems(s) == [i \in 1..Len(s) |-> Ch(s[i])]
Attr(n, v) == [n |-> n, v |-> v]
OpenTag(tag, attrs) == [k |-> "open", c |-> "", tag |-> tag, attrs |-> attrs]
CloseTag(tag) == [k |-> "close", c |-> "", tag |-> tag, attrs |-> << >>]
StartEndTag(tag) == [k |-> "startend", c |-> "", tag |-> tag, attrs |-> << >>]
VTag(tag, val) == OpenTag(tag, <<Attr("v", Some(val))>>)
BrTag == OpenTag("br", << >>)
ItemText(items) == [i \in 1..Len(items) |-> items[i].c]
ItemKinds(items) == [i \in 1..Len(items) |-> items[i].k]

(***************************************************************************)
(* A run of the document, as the code reads and writes it through          *)
(* run.text and run.font: size in hundredths of a point (what the file     *)
(* stores), color.type 0 (none), 1 (RGB) or 2 (theme).                     *)
(***************************************************************************)
NoColor == [type |-> 0, rgb |-> << >>, theme_color |-> 0, brightness |-> 0]
RGBColor(hex) == [type |-> 1, rgb |-> hex, theme_color |-> 0, brightness |-> 0]
ThemeColor(id, br) == [type |-> 2, rgb |-> << >>, theme_color |-> id, brightness |-> br]
Run(text, b, i, u, s, size, color) ==
  [text |-> text, bold |-> b, italic |-> i, underline |-> u, strike |-> s,
   size |-> size, color |-> color]
PlainRun(text) == Run(text, FALSE, FALSE, FALSE, FALSE, None, NoColor)
\* a run whose font has no attribute 'strike': the record has no such field
StrikelessRun(text, b, i, u, size, color) ==
  [text |-> text, bold |-> b, italic |-> i, underline |-> u, size |-> size, color |-> color]
\* hasattr(run.font, 'strike')
HasStrike(run) == "strike" \in DOMAIN run

X000B == <<"_", "x", "0", "0", "0", "B", "_">>

Wrap(cond, tag, body) ==
  IF cond THEN <<OpenTag(tag, << >>)>> \o body \o <<CloseTag(tag)>> ELSE body

\* PPTXProcessor._run_to_html
run_to_html(run) ==
  LET text == html_escape(run.text)
      t1 == Replace(TextItems(text), TextItems(X000B), <<BrTag>>)
      t2 == Replace(t1, <<Ch(VT)>>, <<BrTag>>)
      t3 == Replace(t2, <<Ch(LF)>>, <<BrTag>>)
      t4 == Replace(t3, <<Ch(CR)>>, <<BrTag>>)
      c_tag == IF run.color.type = 1
               THEN Some(VTag("c", <<"#">> \o run.color.rgb))
               ELSE IF run.color.type = 2
               THEN Some(VTag("c", <<"T">> \o IntToStr(run.color.theme_color)
                          \o (IF run.color.brightness # 0
                              THEN <<":">> \o FloatToStr(run.color.brightness)
                              ELSE << >>)))
               ELSE None
      sz_tag == IF ~IsNone(run.size) /\ Val(run.size) # 0
                THEN Some(VTag("sz", IntToStr(Val(run.size) \div 100)))
                ELSE None
      r1 == Wrap(run.bold, "b", t4)
      r2 == Wrap(run.italic, "i", r1)
      r3 == Wrap(run.underline, "u", r2)
      r4 == Wrap(HasStrike(run) /\ run.strike, "s", r3)
      r5 == IF ~IsNone(c_tag) THEN <<Val(c_tag)>> \o r4 \o <<CloseTag("c")>> ELSE r4
      r6 == IF ~IsNone(sz_tag) THEN <<Val(sz_tag)>> \o r5 \o <<CloseTag("sz")>> ELSE r5
  IN IF text = << >> THEN << >> ELSE r6

RECURSIVE runs_to_html(_)
runs_to_html(runs) ==
  IF runs = << >> THEN << >> ELSE run_to_html(Head(runs)) \o runs_to_html(Tail(runs))

\* PPTXProcessor._paragraph_to_html
paragraph_to_html(paragraph) == runs_to_html(paragraph.runs)


(***************************************************************************)
(* HTMLRunParser: the state of one parser object and its handlers. raised  *)
(* is the name of the exception a handler let escape ("" for none).        *)
(***************************************************************************)
DefaultStyle ==
  [bold |-> FALSE, italic |-> FALSE, underline |-> FALSE, strike |-> FALSE,
   font_size |-> None, color_rgb |-> None, theme_color |-> None, brightness |-> None]

\* HTMLRunParser.__init__
NewParser ==
  [runs |-> << >>, current_style |-> DefaultStyle, style_stack |-> << >>, raised |-> ""]

ParsedRun(text, style) == [text |-> text, style |-> style]

RECURSIVE AttrGet(_, _, _)
\* dict(attrs).get(name, default): the last pair named name wins
AttrGet(attrs, name, default) ==
  IF attrs = << >> THEN default
  ELSE IF attrs[Len(attrs)].n = name THEN attrs[Len(attrs)].v
  ELSE AttrGet(Take(attrs, Len(attrs) - 1), name, default)

\* val[1:].split(":")
RECURSIVE Split(_, _)
Split(s, sep) ==
  LET n == SpanLenNot(s, {sep})
  IN IF n = Len(s) THEN <<s>> ELSE <<Take(s, n)>> \o Split(Drop(s, n + 1), sep)

Raise(p, exc) == [p EXCEPT !.raised = exc]
SetStyle(p, field, value) == [p EXCEPT !.current_style[field] = value]

\* the <c v="..."> branch of handle_starttag
StartC(p, attrs) ==
  LET val == AttrGet(attrs, "v", Some(<< >>))
  IN IF IsNone(val) THEN Raise(p, "AttributeError")
     ELSE IF StartsWith(Val(val), <<"#">>)
     THEN SetStyle(p, "color_rgb", Some(Upper(Replace(Val(val), <<"#">>, << >>))))
     ELSE IF StartsWith(Val(val), <<"T">>)
     THEN LET parts == Split(Tail(Val(val)), ":")
              id == ParseInt(parts[1])
              p1 == SetStyle(p, "theme_color", id)
              br == ParseFloat(parts[2])
          IN IF IsNone(id) THEN p
             ELSE IF Len(parts) > 1 /\ ~IsNone(br) THEN SetStyle(p1, "brightness", br)
             ELSE p1
     ELSE p

\* the <sz v="..."> branch of handle_starttag
StartSz(p, attrs) ==
  LET val == AttrGet(attrs, "v", Some(<< >>))
  IN IF IsNone(val) THEN Raise(p, "TypeError")
     ELSE IF IsNone(ParseFloat(Val(val))) THEN p
     ELSE SetStyle(p, "font_size", ParseFloat(Val(val)))

AppendRun(p, text) ==
  [p EXCEPT !.runs = Append(@, ParsedRun(text, p.current_style))]

\* HTMLRunParser.handle_starttag
handle_starttag(p, tag, attrs) ==
  LET q == [p EXCEPT !.style_stack = Append(@, p.current_style)]
  IN CASE tag = "br" -> AppendRun(q, <<VT>>)
       [] tag \in {"b", "strong"} -> SetStyle(q, "bold", TRUE)
       [] tag \in {"i", "em"} -> SetStyle(q, "italic", TRUE)
       [] tag = "u" -> SetStyle(q, "underline", TRUE)
       [] tag \in {"s", "strike", "del"} -> SetStyle(q, "strike", TRUE)
       [] tag = "c" -> StartC(q, attrs)
       [] tag = "sz" -> StartSz(q, attrs)
       [] OTHER -> q

\* HTMLRunParser.handle_startendtag
handle_startendtag(p, tag, attrs) ==
  IF tag = "br" THEN AppendRun(p, <<VT>>) ELSE p

\* HTMLRunParser.handle_endtag
handle_endtag(p, tag) ==
  IF tag = "br" THEN p
  ELSE IF p.style_stack # << >>
  THEN [p EXCEPT !.current_style = p.style_stack[Len(p.style_stack)],
                 !.style_stack = Take(@, Len(@) - 1)]
  ELSE p

\* HTMLRunParser.handle_data
handle_data(p, data) ==
  IF data = << >> THEN p ELSE AppendRun(p, data)

(***************************************************************************)
(* html.parser.HTMLParser.goahead(end = False) with convert_charrefs, one  *)
(* iteration at a time. i is the position in rawdata (1-based); the result *)
(* is the parser, the new position and whether the loop has ended.         *)
(***************************************************************************)
LowerTag(t) ==
  CASE t = "B" -> "b" [] t = "I" -> "i" [] t = "U" -> "u" [] t = "S" -> "s"
    [] t = "BR" -> "br" [] t = "C" -> "c" [] t = "SZ" -> "sz" [] OTHER -> t

UnescapeAttrs(attrs) ==
  [a \in 1..Len(attrs) |->
     Attr(attrs[a].n, IF IsNone(attrs[a].v) THEN None
                      ELSE Some(html_unescape(Val(attrs[a].v))))]

\* rawdata.find('<', i): the position of the next tag, 0 for "not found"
NextTag(rawdata, i) ==
  LET n == SpanLen(ItemKinds(Drop(rawdata, i - 1)), {"ch"})
  IN IF i + n > Len(rawdata) THEN 0 ELSE i + n

RegexSpace == {" ", "\t", LF, CR, "\f", VT}

RECURSIVE RFind(_, _, _)
\* s.rfind(c, lo), 1-based, 0 for "not found"
RFind(s, c, lo) ==
  IF Len(s) < lo \/ s = << >> THEN 0
  ELSE IF s[Len(s)] = c THEN Len(s)
  ELSE RFind(Take(s, Len(s) - 1), c, lo)

\* the text after position i holds an ampersand that may be a reference cut
\* in half: goahead waits for more input
WaitsForMoreText(tail) ==
  LET amppos == RFind(tail, "&", Max(1, Len(tail) - 33))
  IN amppos > 0 /\ \A k \in amppos..Len(tail) : tail[k] \notin RegexSpace \cup {";"}

GoaheadStep(p, rawdata, i) ==
  LET n == Len(rawdata)
      j == NextTag(rawdata, i)
      it == rawdata[i]
  IN IF i > n \/ p.raised # "" THEN [p |-> p, i |-> i, stop |-> TRUE]
     ELSE IF j = 0 /\ WaitsForMoreText(ItemText(Drop(rawdata, i - 1)))
     THEN [p |-> p, i |-> i, stop |-> TRUE]
     ELSE IF j # i
     THEN LET e == IF j = 0 THEN n + 1 ELSE j
          IN [p |-> handle_data(p, html_unescape(ItemText(SubSeq(rawdata, i, e - 1)))),
              i |-> e, stop |-> FALSE]
     ELSE [p |-> CASE it.k = "open" ->
                        handle_starttag(p, LowerTag(it.tag), UnescapeAttrs(it.attrs))
                   [] it.k = "startend" ->
                        handle_startendtag(p, LowerTag(it.tag), UnescapeAttrs(it.attrs))
                   [] it.k = "close" -> handle_endtag(p, LowerTag(it.tag)),
           i |-> i + 1, stop |-> FALSE]

RECURSIVE Goahead(_, _, _)
Goahead(p, rawdata, i) ==
  LET r == GoaheadStep(p, rawdata, i)
  IN IF r.stop THEN r.p ELSE Goahead(r.p, rawdata, r.i)

\* parser = HTMLRunParser(); parser.feed(html_text)
Feed(html_text) == Goahead(NewParser, html_text, 1)


(***************************************************************************)
(* PPTXProcessor._reconstruct_paragraph and _apply_style.                  *)
(* html_text is None, or Some(markup).                                     *)
(***************************************************************************)
TagChars(tag) ==
  CASE tag = "b" -> <<"b">> [] tag = "i" -> <<"i">> [] tag = "u" -> <<"u">>
    [] tag = "s" -> <<"s">> [] tag = "c" -> <<"c">> [] tag = "sz" -> <<"s", "z">>
    [] tag = "br" -> <<"b", "r">> [] tag = "r0" -> <<"r", "0">>
    [] tag = "r1" -> <<"r", "1">> [] OTHER -> <<tag>>

RECURSIVE AttrChars(_)
AttrChars(attrs) ==
  IF attrs = << >> THEN << >>
  ELSE <<" ">> \o <<Head(attrs).n>>
       \o (IF IsNone(Head(attrs).v) THEN << >>
           ELSE <<"=", "\"">> \o Val(Head(attrs).v) \o <<"\"">>)
       \o AttrChars(Tail(attrs))

\* the characters of one markup item
ItemChars(it) ==
  CASE it.k = "ch" -> <<it.c>>
    [] it.k = "open" -> <<"<">> \o TagChars(it.tag) \o AttrChars(it.attrs) \o <<">">>
    [] it.k = "close" -> <<"<", "/">> \o TagChars(it.tag) \o <<">">>
    [] it.k = "startend" -> <<"<">> \o TagChars(it.tag) \o <<"/", ">">>

RECURSIVE MarkupChars(_)
MarkupChars(m) == IF m = << >> THEN << >> ELSE ItemChars(Head(m)) \o MarkupChars(Tail(m))

AllHex(s) == s # << >> /\ \A k \in 1..Len(s) : s[k] \in HexDigits
HexChar(d) == <<"0", "1", "2", "3", "4", "5", "6", "7", "8", "9", "A", "B", "C", "D", "E", "F">>[d + 1]
Hex2(n) == <<HexChar(n \div 16), HexChar(n % 16)>>

\* RGBColor.from_string(s) as str() shows it: None for the ValueError
rgb_from_string(s) ==
  IF Len(s) >= 5 /\ AllHex(s) /\ StrToNat(Drop(s, 4), 16, 0) <= 255
  THEN Some(Hex2(StrToNat(SubSeq(s, 1, 2), 16, 0)) \o Hex2(StrToNat(SubSeq(s, 3, 4), 16, 0))
            \o Hex2(StrToNat(Drop(s, 4), 16, 0)))
  ELSE None

\* the members of MSO_THEME_COLOR that name a theme color
ThemeColorIds == 1..16

\* PPTXProcessor._apply_style on a run that paragraph.add_run() has made
apply_style(run, style) ==
  LET r0 == [run EXCEPT !.bold = style.bold, !.italic = style.italic,
                        !.underline = style.underline]
      r1 == IF style.strike /\ HasStrike(run) THEN [r0 EXCEPT !.strike = TRUE] ELSE r0
      r2 == IF ~IsNone(style.font_size) /\ Val(style.font_size) # 0
            THEN [r1 EXCEPT !.size =
                    Some(Centipoints(Pt(Hundredths(Val(style.font_size)))))]
            ELSE r1
      rgb == IF ~IsNone(style.color_rgb) /\ Val(style.color_rgb) # << >>
             THEN rgb_from_string(Val(style.color_rgb)) ELSE None
      r3 == IF ~IsNone(rgb) THEN [r2 EXCEPT !.color = RGBColor(Val(rgb))] ELSE r2
      r4 == IF ~IsNone(style.theme_color) /\ Val(style.theme_color) \in ThemeColorIds
            THEN [r3 EXCEPT !.color =
                    ThemeColor(Val(style.theme_color),
                               IF ~IsNone(style.brightness)
                                  /\ Val(style.brightness) \in (-100)..100
                               THEN Val(style.brightness) ELSE 0)]
            ELSE r3
  IN r4

Paragraph(runs, extra) == [runs |-> runs, extra |-> extra]
\* a paragraph of a library whose fonts have no attribute 'strike'
StrikelessParagraph(runs, extra) == [runs |-> runs, extra |-> extra, strikeless |-> TRUE]
\* paragraph.add_run() with the text set
add_run(paragraph, text) ==
  IF "strikeless" \in DOMAIN paragraph
  THEN StrikelessRun(text, FALSE, FALSE, FALSE, None, NoColor)
  ELSE PlainRun(text)

\* _reconstruct_paragraph clearing the paragraph before it looks at the runs
rebuild_paragraph_clearing(paragraph, html_text, parsed) ==
  IF parsed.raised # ""
  THEN [paragraph EXCEPT !.runs = <<add_run(paragraph, html_unescape(MarkupChars(html_text)))>>,
                         !.extra = << >>]
  ELSE [paragraph EXCEPT !.runs = [k \in 1..Len(parsed.runs) |->
                                     apply_style(add_run(paragraph,
                                                         html_unescape(parsed.runs[k].text)),
                                                 parsed.runs[k].style)],
                         !.extra = << >>]

\* the part of _reconstruct_paragraph after parser.feed: parsed is the parser
rebuild_paragraph(paragraph, html_text, parsed) ==
  IF parsed.raised # ""
  THEN [paragraph EXCEPT !.runs = <<add_run(paragraph, html_unescape(MarkupChars(html_text)))>>,
                         !.extra = << >>]
  ELSE IF parsed.runs = << >> THEN paragraph
  ELSE [paragraph EXCEPT !.runs = [k \in 1..Len(parsed.runs) |->
                                     apply_style(add_run(paragraph,
                                                         html_unescape(parsed.runs[k].text)),
                                                 parsed.runs[k].style)],
                         !.extra = << >>]

\* PPTXProcessor._reconstruct_paragraph: the paragraph after the call
reconstruct_paragraph(paragraph, html_text) ==
  IF IsNone(html_text) \/ Val(html_text) = << >> THEN paragraph
  ELSE rebuild_paragraph(paragraph, Val(html_text), Feed(Val(html_text)))

(***************************************************************************)
(* The document: a presentation is a sequence of slides, a slide the       *)
(* sequence of its shapes. A paragraph is its runs and the text of its     *)
(* other children (fields, line breaks), which paragraph.text includes and *)
(* paragraph.runs does not. A paragraph object is named by its path:       *)
(* the indexes from the slide's shape list down to the paragraph.          *)
(***************************************************************************)
\* a shape's left, top, width and height; xfrm is false for a shape that has no
\* geometry of its own, whose left, top, width and height all read None
Geom(l, t, w, h) == [xfrm |-> TRUE, left |-> l, top |-> t, width |-> w, height |-> h]
NoGeom == [xfrm |-> FALSE, left |-> 0, top |-> 0, width |-> 0, height |-> 0]
TextShape(g, paragraphs) ==
  [kind |-> "text", geom |-> g, paragraphs |-> paragraphs, rows |-> << >>, shapes |-> << >>]
Cell(width, paragraphs) == [width |-> width, paragraphs |-> paragraphs]
Row(height, cells) == [height |-> height, cells |-> cells]
TableShape(g, rows) ==
  [kind |-> "table", geom |-> g, paragraphs |-> << >>, rows |-> rows, shapes |-> << >>]
GroupShape(g, shapes) ==
  [kind |-> "group", geom |-> g, paragraphs |-> << >>, rows |-> << >>, shapes |-> shapes]
Picture(g) ==
  [kind |-> "picture", geom |-> g, paragraphs |-> << >>, rows |-> << >>, shapes |-> << >>]

\* shape.shape_type == MSO_SHAPE_TYPE.GROUP, shape.has_table, shape.has_text_frame
IsGroup(shape) == shape.kind = "group"
HasTable(shape) == shape.kind = "table"
HasTextFrame(shape) == shape.kind = "text"

\* str.strip() leaves nothing
StripWhite == {" ", "\t", LF, CR, "\f", VT}
IsBlank(text) == \A k \in 1..Len(text) : text[k] \in StripWhite

RECURSIVE RunsText(_)
\* "".join(r.text for r in paragraph.runs)
RunsText(runs) == IF runs = << >> THEN << >> ELSE Head(runs).text \o RunsText(Tail(runs))

\* paragraph.text
ParagraphText(paragraph) == RunsText(paragraph.runs) \o paragraph.extra

RECURSIVE GetPara(_, _)
\* the paragraph that path names among shapes
GetPara(shapes, path) ==
  LET sh == shapes[path[1]]
  IN CASE sh.kind = "group" -> GetPara(sh.shapes, Tail(path))
       [] sh.kind = "table" -> sh.rows[path[2]].cells[path[3]].paragraphs[path[4]]
       [] OTHER -> sh.paragraphs[path[2]]

RECURSIVE SetPara(_, _, _)
\* shapes with the paragraph that path names replaced
SetPara(shapes, path, para) ==
  LET sh == shapes[path[1]]
  IN CASE sh.kind = "group" ->
            [shapes EXCEPT ![path[1]].shapes = SetPara(sh.shapes, Tail(path), para)]
       [] sh.kind = "table" ->
            [shapes EXCEPT ![path[1]].rows[path[2]].cells[path[3]].paragraphs[path[4]] = para]
       [] OTHER -> [shapes EXCEPT ![path[1]].paragraphs[path[2]] = para]

(***************************************************************************)
(* The walker: PPTXProcessor._collect_tasks, _collect_text_frame_tasks.    *)
(***************************************************************************)
Task(path, context) == [paragraph |-> path, context |-> context]

RECURSIVE collect_text_frame_tasks(_, _, _, _)
\* the tasks of the paragraphs k.. of a text frame reached by path
collect_text_frame_tasks(paragraphs, path, k, context) ==
  IF k > Len(paragraphs) THEN << >>
  ELSE (IF IsBlank(ParagraphText(paragraphs[k])) THEN << >>
        ELSE <<Task(Append(path, k), context)>>)
       \o collect_text_frame_tasks(paragraphs, path, k + 1, context)

RECURSIVE collect_tasks_inherit(_, _, _)
\* a walker whose groups hand the incoming context down
collect_tasks_inherit(shape, path, context) ==
  IF IsGroup(shape)
  THEN Concat([k \in 1..Len(shape.shapes) |->
                 collect_tasks_inherit(shape.shapes[k], Append(path, k), context)])
  ELSE IF HasTable(shape)
  THEN Concat([r \in 1..Len(shape.rows) |->
         Concat([c \in 1..Len(shape.rows[r].cells) |->
            collect_text_frame_tasks(shape.rows[r].cells[c].paragraphs,
                                     path \o <<r, c>>, 1, "constrained")])])
  ELSE IF HasTextFrame(shape)
  THEN collect_text_frame_tasks(shape.paragraphs, path, 1, context)
  ELSE << >>

RECURSIVE collect_tasks(_, _, _)
collect_tasks(shape, path, context) ==
  IF IsGroup(shape)
  THEN Concat([k \in 1..Len(shape.shapes) |->
                 collect_tasks(shape.shapes[k], Append(path, k), "constrained")])
  ELSE IF HasTable(shape)
  THEN Concat([r \in 1..Len(shape.rows) |->
         Concat([c \in 1..Len(shape.rows[r].cells) |->
            collect_text_frame_tasks(shape.rows[r].cells[c].paragraphs,
                                     path \o <<r, c>>, 1, "constrained")])])
  ELSE IF HasTextFrame(shape)
  THEN collect_text_frame_tasks(shape.paragraphs, path, 1, context)
  ELSE << >>

\* the loop of _process_slide over slide.shapes, context defaulting to "standard"
slide_tasks(shapes) ==
  Concat([k \in 1..Len(shapes) |-> collect_tasks(shapes[k], <<k>>, "standard")])

(***************************************************************************)
(* Config and PPTXProcessor._calculate_max_chars. expansion_ratio is in    *)
(* hundredths; language names are character sequences.                     *)
(***************************************************************************)
UpperLetters ==
  <<"A", "B", "C", "D", "E", "F", "G", "H", "I", "J", "K", "L", "M",
    "N", "O", "P", "Q", "R", "S", "T", "U", "V", "W", "X", "Y", "Z">>
LowerLetters ==
  <<"a", "b", "c", "d", "e", "f", "g", "h", "i", "j", "k", "l", "m",
    "n", "o", "p", "q", "r", "s", "t", "u", "v", "w", "x", "y", "z">>
LowerChar(c) ==
  IF \E k \in 1..Len(UpperLetters) : UpperLetters[k] = c
  THEN LowerLetters[CHOOSE k \in 1..Len(UpperLetters) : UpperLetters[k] = c]
  ELSE c
Lower(s) == [k \in 1..Len(s) |-> LowerChar(s[k])]

\* sub in s
Contains(s, sub) ==
  \E k \in 0..(Len(s) - Len(sub)) : \A j \in 1..Len(sub) : s[k + j] = sub[j]

japanese == <<"j", "a", "p", "a", "n", "e", "s", "e">>
english == <<"e", "n", "g", "l", "i", "s", "h">>

\* _calculate_max_chars with the reverse pair multiplying like the forward pair
calculate_max_chars_multiplying(original_length, conf) ==
  LET s_lang == Lower(conf.source_language)
      t_lang == Lower(conf.target_language)
      base_ratio == Hundredths(conf.expansion_ratio)
      ratio == IF (Contains(s_lang, japanese) /\ Contains(t_lang, english))
                  \/ (Contains(s_lang, english) /\ Contains(t_lang, japanese))
               THEN base_ratio
               ELSE FloatOf(1)
  IN FloatInt(FloatMul(FloatOf(original_length), ratio))

\* PPTXProcessor._calculate_max_chars: int(original_length * ratio) in floats
calculate_max_chars(original_length, conf) ==
  LET s_lang == Lower(conf.source_language)
      t_lang == Lower(conf.target_language)
      base_ratio == Hundredths(conf.expansion_ratio)
      ratio == IF Contains(s_lang, japanese) /\ Contains(t_lang, english)
               THEN base_ratio
               ELSE IF Contains(s_lang, english) /\ Contains(t_lang, japanese)
               THEN IF base_ratio # Zero THEN FloatDiv(FloatOf(1), base_ratio)
                    ELSE FloatOf(1)
               ELSE FloatOf(1)
  IN FloatInt(FloatMul(FloatOf(original_length), ratio))

(***************************************************************************)
(* Translator.translate_batch. The backend is a function from the ids of   *)
(* the items of a request to what the service does with it: an error, or   *)
(* a content. A content is text that is no JSON, or a JSON list, object    *)
(* (its values in order) or scalar. An element of a result list is a dict  *)
(* (id, translation, text: None when the key is missing) or a scalar.      *)
(***************************************************************************)
JText == [k |-> "text", v |-> << >>]
JScalar == [k |-> "scalar", v |-> << >>]
JList(v) == [k |-> "list", v |-> v]
JDict(vals) == [k |-> "dict", v |-> vals]
Content(c) == [k |-> "content", content |-> c, msg |-> ""]
Error(msg) == [k |-> "error", content |-> JText, msg |-> msg]

ResultDict(id, translation, text) ==
  [k |-> "dict", id |-> id, translation |-> translation, text |-> text]
ResultScalar == [k |-> "scalar", id |-> None, translation |-> None, text |-> None]

ItemIds(items) == [k \in 1..Len(items) |-> items[k].id]

\* json.loads(content) and the choice of the list to return
parse_content(c) ==
  CASE c.k = "list" -> c.v
    [] c.k = "dict" ->
         (IF \E k \in 1..Len(c.v) : c.v[k].k = "list"
          THEN c.v[CHOOSE k \in 1..Len(c.v) :
                     /\ c.v[k].k = "list"
                     /\ \A j \in 1..(k - 1) : c.v[j].k # "list"].v
          ELSE << >>)
    [] OTHER -> << >>

IsContextLength(msg) == msg = "context_length_exceeded" \/ msg = "maximum context length"

GatewayResult(result, raised, requests) ==
  [result |-> result, raised |-> raised, requests |-> requests]

RECURSIVE translate_batch(_, _, _, _)
\* system_prompt_template "" stands for None and for the empty string
translate_batch(items, system_prompt_template, base_system_prompt, backend) ==
  IF items = << >> THEN GatewayResult(<< >>, "", << >>)
  ELSE IF \E k \in 1..Len(items) : ~({"id", "text", "max_chars"} \subseteq DOMAIN items[k])
  THEN GatewayResult(<< >>, "KeyError", << >>)
  ELSE
    LET request == [prompt |-> IF system_prompt_template # "" THEN system_prompt_template
                               ELSE base_system_prompt,
                    ids |-> ItemIds(items)]
        outcome == backend[ItemIds(items)]
    IN IF outcome.k = "content"
       THEN GatewayResult(parse_content(outcome.content), "", <<request>>)
       ELSE IF IsContextLength(outcome.msg) /\ Len(items) > 1
       THEN LET mid == Len(items) \div 2
                left == translate_batch(Take(items, mid), "", base_system_prompt, backend)
                right == translate_batch(Drop(items, mid), "", base_system_prompt, backend)
            IN IF left.raised # "" THEN GatewayResult(<< >>, left.raised, <<request>> \o left.requests)
               ELSE GatewayResult(left.result \o right.result, right.raised,
                                  <<request>> \o left.requests \o right.requests)
       ELSE GatewayResult(<< >>, "", <<request>>)

(***************************************************************************)
(* MockTranslator: translate_text puts "[EN] " after every <rN> that a     *)
(* </rN> follows; translate_batch answers with the keys id and text.       *)
(***************************************************************************)
RTags == {"r0", "r1"}
IsROpen(it) == it.k = "open" /\ it.tag \in RTags /\ it.attrs = << >>
IsRClose(it) == it.k = "close" /\ it.tag \in RTags
EN == TextItems(<<"[", "E", "N", "]", " ">>)

RECURSIVE mock_translate_text(_)
mock_translate_text(text) ==
  IF text = << >> THEN << >>
  ELSE IF IsROpen(Head(text)) /\ \E k \in 2..Len(text) : IsRClose(text[k])
  THEN LET e == CHOOSE k \in 2..Len(text) :
                  IsRClose(text[k]) /\ \A j \in 2..(k - 1) : ~IsRClose(text[j])
       IN <<Head(text)>> \o EN \o SubSeq(text, 2, e) \o mock_translate_text(Drop(text, e))
  ELSE <<Head(text)>> \o mock_translate_text(Tail(text))

mock_translate_batch(items) ==
  [k \in 1..Len(items) |->
     ResultDict(Some(items[k].id), None, Some(mock_translate_text(items[k].text)))]

(***************************************************************************)
(* PPTXProcessor._process_batch on the shapes of one slide. trans is       *)
(* "azure" (Translator), "mock" (MockTranslator) or "stub" (a translator   *)
(* that answers with the list env.resp, as the tests' doubles do).         *)
(***************************************************************************)
BatchItem(id, text, limit, task) ==
  [id |-> id, text |-> text, limit |-> limit, task_ref |-> task]

RECURSIVE batch_items(_, _, _, _)
\* the items of tasks[k..], ids from enumerate(tasks)
batch_items(shapes, tasks, k, conf) ==
  IF k > Len(tasks) THEN << >>
  ELSE LET paragraph == GetPara(shapes, tasks[k].paragraph)
           html_text == paragraph_to_html(paragraph)
           raw_text_length == Len(RunsText(paragraph.runs))
       IN (IF IsBlank(MarkupChars(html_text)) THEN << >>
           ELSE <<BatchItem(k - 1, html_text,
                            calculate_max_chars(raw_text_length, conf), tasks[k])>>)
          \o batch_items(shapes, tasks, k + 1, conf)

\* {k: v for k, v in item.items() if k != "_task_ref"}
llm_payload(batch) ==
  [k \in 1..Len(batch) |->
     [id |-> batch[k].id, text |-> batch[k].text, limit |-> batch[k].limit]]

\* a reconciliation by position: the k-th answer goes to the k-th task
translated_map_by_position(translated_items) ==
  [key \in {Some(k - 1) : k \in 1..Len(translated_items)} |->
     translated_items[Val(key) + 1].translation]

\* {item.get("id"): item.get("translation") for item in translated_items}
translated_map(translated_items) ==
  [key \in {translated_items[k].id : k \in 1..Len(translated_items)} |->
     translated_items[CHOOSE k \in 1..Len(translated_items) :
        /\ translated_items[k].id = key
        /\ \A j \in (k + 1)..Len(translated_items) : translated_items[j].id # key
     ].translation]

RECURSIVE apply_translations(_, _, _, _)
\* the loop over batch_items[k..] that reconstructs the paragraphs
apply_translations(shapes, batch, k, tmap) ==
  IF k > Len(batch) THEN shapes
  ELSE LET t_id == Some(batch[k].id)
           path == batch[k].task_ref.paragraph
       IN IF t_id \notin DOMAIN tmap
          THEN apply_translations(shapes, batch, k + 1, tmap)
          ELSE apply_translations(
                 SetPara(shapes, path, reconstruct_paragraph(GetPara(shapes, path), tmap[t_id])),
                 batch, k + 1, tmap)

\* self.translator.translate_batch(llm_payload, prompt_template)
call_translator(trans, payload, prompt_template, conf, env) ==
  CASE trans = "azure" ->
         translate_batch(payload, prompt_template, conf.presentation_body_prompt, env.backend)
    [] trans = "mock" -> GatewayResult(mock_translate_batch(payload), "", << >>)
    [] OTHER -> GatewayResult(env.resp, "", << >>)

\* what a _process_batch call did: answered says that the translator returned
BatchResult(shapes, raised, items, answered, response) ==
  [shapes |-> shapes, raised |-> raised, items |-> items, answered |-> answered,
   response |-> response]

\* the part of _process_batch after the translator's call returned gw
reconcile(shapes, batch, gw) ==
  IF gw.raised # "" THEN BatchResult(shapes, gw.raised, batch, FALSE, << >>)
  ELSE IF Len(gw.result) # Len(batch)
  THEN BatchResult(shapes, "", batch, TRUE, gw.result)
  ELSE IF \E k \in 1..Len(gw.result) : gw.result[k].k # "dict"
  THEN BatchResult(shapes, "AttributeError", batch, TRUE, gw.result)
  ELSE BatchResult(apply_translations(shapes, batch, 1, translated_map(gw.result)),
                   "", batch, TRUE, gw.result)

\* the part of _process_batch after batch_items is built
send_batch(shapes, batch, prompt_template, trans, conf, env) ==
  IF batch = << >> THEN BatchResult(shapes, "", batch, FALSE, << >>)
  ELSE reconcile(shapes, batch,
                 call_translator(trans, llm_payload(batch), prompt_template, conf, env))

process_batch(shapes, tasks, prompt_template, trans, conf, env) ==
  send_batch(shapes, batch_items(shapes, tasks, 1, conf), prompt_template, trans, conf, env)

\* [t for t in tasks if t['context'] == context]
tasks_of(tasks, context) == SelectSeq(tasks, LAMBDA t : t.context = context)

(***************************************************************************)
(* LayoutAdjuster. Lengths are EMU, font sizes hundredths of a point, as    *)
(* the document stores them: Font.size reads sz * 127 EMU and a size that  *)
(* is set keeps the whole hundredths of the EMU value given. The widths,   *)
(* heights and ratios of _apply_manual_fit are floats, computed operation  *)
(* by operation in the order of the code.                                  *)
(***************************************************************************)
\* ord(char) > 255, for the characters of the model
WideChars == {"U+3042", "U+226A", "U+FFFD", "U+?"}
is_wide(char) == char \in WideChars

\* Pt(18), the size taken for a run that has none
DefaultSize == 1800
\* 6 points, below which _scale_font_size sets no size
MinSize == 600
\* the height taken when none is known
InfiniteHeight == 99999999
margin == 91440

\* run.font.size, or Pt(18) in its place
SizeOrDefault(run) == IF IsNone(run.size) THEN DefaultSize ELSE Val(run.size)

\* char_width = font_size.pt * 12700 * factor, the factor 1.0 for a wide
\* character and 0.55 for any other
char_width(wide, size) ==
  FloatMul(FloatMul(PointsOf(size), FloatOf(12700)),
           IF wide THEN FloatOf(1) ELSE Hundredths(55))

RECURSIVE add_char_widths(_, _, _, _)
\* width += char_width for the characters of text in their order, '\n'
\* skipped; the text is walked half by half, the width after the first half
\* being settled before the second is walked
add_char_widths(width, text, narrow, wide) ==
  IF text = << >> THEN width
  ELSE IF Len(text) = 1
  THEN IF text[1] = LF THEN width
       ELSE FloatAdd(width, IF is_wide(text[1]) THEN wide ELSE narrow)
  ELSE LET half == add_char_widths(width, Take(text, Len(text) \div 2), narrow, wide)
       IN IF half = Zero
          THEN add_char_widths(Zero, Drop(text, Len(text) \div 2), narrow, wide)
          ELSE add_char_widths(half, Drop(text, Len(text) \div 2), narrow, wide)

\* the loop over the characters, the two widths a character can have known
chars_linear_width(width, text, narrow, wide) ==
  CASE Known(width) /\ Known(narrow) /\ Known(wide) ->
    add_char_widths(width, text, narrow, wide)

\* the loop over the characters of one run
text_linear_width(width, text, size) ==
  chars_linear_width(width, text, char_width(FALSE, size), char_width(TRUE, size))

RECURSIVE runs_linear_width(_, _)
runs_linear_width(width, runs) ==
  IF runs = << >> THEN width
  ELSE runs_linear_width(text_linear_width(width, Head(runs).text, SizeOrDefault(Head(runs))),
                         Tail(runs))

\* LayoutAdjuster._estimate_paragraph_linear_width
estimate_paragraph_linear_width(paragraph) == runs_linear_width(Zero, paragraph.runs)

RECURSIVE add_paragraph_widths(_, _)
add_paragraph_widths(total, paragraphs) ==
  IF paragraphs = << >> THEN total
  ELSE add_paragraph_widths(FloatAdd(total, estimate_paragraph_linear_width(Head(paragraphs))),
                            Tail(paragraphs))

\* LayoutAdjuster._estimate_total_linear_width
estimate_total_linear_width(paragraphs) == add_paragraph_widths(Zero, paragraphs)

\* max_size = r.font.size.pt when r.font.size.pt > max_size
larger_size(max_size, pt) == IF FloatLess(max_size, pt) THEN pt ELSE max_size

RECURSIVE max_run_size(_, _)
max_run_size(runs, max_size) ==
  IF runs = << >> THEN max_size
  ELSE max_run_size(Tail(runs),
                    IF ~IsNone(Head(runs).size) /\ Val(Head(runs).size) # 0
                    THEN larger_size(max_size, PointsOf(Val(Head(runs).size)))
                    ELSE max_size)

RECURSIVE max_font_size_from(_, _)
max_font_size_from(paragraphs, max_size) ==
  IF paragraphs = << >> THEN max_size
  ELSE max_font_size_from(Tail(paragraphs), max_run_size(Head(paragraphs).runs, max_size))

\* LayoutAdjuster._get_max_font_size, in points
get_max_font_size(paragraphs) == max_font_size_from(paragraphs, Zero)

\* line_height_emu = avg_font_size_pt * 12700 * 1.2, with 18 for no size
line_height_of(avg_font_size_pt) ==
  FloatMul(FloatMul(IF avg_font_size_pt = Zero THEN PointsOf(DefaultSize)
                    ELSE avg_font_size_pt,
                    FloatOf(12700)),
           Hundredths(120))
line_height_emu(paragraphs) == line_height_of(get_max_font_size(paragraphs))

\* effective_width = available_width * 0.95
effective_width(available_width) == FloatMul(FloatOf(available_width), Hundredths(95))

\* lines = math.ceil(p_width / effective_width), 1 for a width of 0
paragraph_lines(p_width, width) ==
  IF p_width = Zero THEN 1 ELSE FloatCeil(FloatDiv(p_width, width))

RECURSIVE estimated_lines(_, _)
estimated_lines(paragraphs, width) ==
  IF paragraphs = << >> THEN 0
  ELSE CASE Known(width) ->
         paragraph_lines(estimate_paragraph_linear_width(Head(paragraphs)), width)
         + estimated_lines(Tail(paragraphs), width)

\* _scale_font_size without the floor of 6 points
scaled_size_unfloored(run, ratio) ==
  Centipoints(Pt(FloatMul(PointsOf(IF ~IsNone(run.size) /\ Val(run.size) # 0
                                   THEN Val(run.size) ELSE DefaultSize),
                          ratio)))

\* new_size = 6 when new_size < 6
floored_size(new_size, floor) == IF FloatLess(new_size, floor) THEN floor ELSE new_size

\* the size a run keeps of _scale_font_size: Pt(new_size), new_size being
\* size.pt * ratio, or 18 * ratio for a run without a size, and 6 when less
scaled_size(run, ratio) ==
  Centipoints(Pt(floored_size(FloatMul(PointsOf(IF ~IsNone(run.size) /\ Val(run.size) # 0
                                                THEN Val(run.size) ELSE DefaultSize),
                                       ratio),
                              PointsOf(MinSize))))

scale_paragraph(paragraph, ratio) ==
  [paragraph EXCEPT !.runs =
     [r \in 1..Len(paragraph.runs) |->
        [paragraph.runs[r] EXCEPT !.size = Some(scaled_size(paragraph.runs[r], ratio))]]]

\* LayoutAdjuster._scale_font_size: the paragraphs after the call
scale_font_size(paragraphs, ratio) ==
  [p \in 1..Len(paragraphs) |-> scale_paragraph(paragraphs[p], ratio)]

\* safe_factor = math.sqrt(available_height / estimated_total_height) * 0.95
safe_factor(available_height, estimated_total_height) ==
  FloatMul(FloatSqrt(FloatDiv(FloatOf(available_height), estimated_total_height)),
           Hundredths(95))

\* self._scale_font_size(text_frame, safe_factor), the factor known
scale_by(paragraphs, ratio) == CASE Known(ratio) -> scale_font_size(paragraphs, ratio)

\* a fitting that scales whether or not the estimate exceeds the height
fit_to_height_always(paragraphs, available_height, estimated_total_height) ==
  scale_by(paragraphs, safe_factor(available_height, estimated_total_height))

\* the part of _apply_manual_fit from the comparison of the heights on
fit_to_height(paragraphs, available_height, estimated_total_height) ==
  IF FloatLess(FloatOf(available_height), estimated_total_height)
  THEN scale_by(paragraphs, safe_factor(available_height, estimated_total_height))
  ELSE paragraphs

\* estimated_total_height = estimated_lines * line_height_emu, and what
\* follows it
fit_lines(paragraphs, available_height, line_height, lines) ==
  CASE Known(line_height) /\ Known(lines) ->
    fit_to_height(paragraphs, available_height, FloatMul(FloatOf(lines), line_height))

\* LayoutAdjuster._apply_manual_fit: the paragraphs of the text frame after the
\* call; a width or height that is None is given as None
apply_manual_fit(paragraphs, available_width, available_height) ==
  IF IsNone(available_width) \/ Val(available_width) <= 0 THEN paragraphs
  ELSE IF estimate_total_linear_width(paragraphs) = Zero THEN paragraphs
  ELSE fit_lines(paragraphs,
                 IF IsNone(available_height) \/ Val(available_height) <= 0
                 THEN InfiniteHeight ELSE Val(available_height),
                 line_height_emu(paragraphs),
                 estimated_lines(paragraphs, effective_width(Val(available_width))))

\* shape.width, shape.height
shape_width(shape) == IF shape.geom.xfrm THEN Some(shape.geom.width) ELSE None
shape_height(shape) == IF shape.geom.xfrm THEN Some(shape.geom.height) ELSE None

\* the least element of a set of numbers
SetMin(S) == CHOOSE x \in S : \A y \in S : x <= y

\* a band test that lets a sibling touching the top or bottom edge pass
obstructions_open(all_shapes, i) ==
  LET shape == all_shapes[i].geom
  IN {j \in 1..Len(all_shapes) :
        /\ j # i
        /\ all_shapes[j].geom.left >= shape.left + shape.width
        /\ ~(\/ all_shapes[j].geom.top + all_shapes[j].geom.height <= shape.top
             \/ all_shapes[j].geom.top >= shape.top + shape.height)}

\* the siblings _adjust_text_box takes for obstructions of all_shapes[i]
obstructions(all_shapes, i) ==
  LET shape == all_shapes[i].geom
  IN {j \in 1..Len(all_shapes) :
        /\ j # i
        /\ all_shapes[j].geom.left >= shape.left + shape.width
        /\ ~(\/ all_shapes[j].geom.top + all_shapes[j].geom.height < shape.top
             \/ all_shapes[j].geom.top > shape.top + shape.height)}

\* max_right after the loop over all_shapes
max_right(all_shapes, i, prs_slide_width) ==
  SetMin({prs_slide_width} \cup {all_shapes[j].geom.left : j \in obstructions(all_shapes, i)})

\* what an _adjust_* call did to its shape: wrapped are the text frames, by
\* their paths below the shape, whose word_wrap it set
Adjusted(shape, wrapped, raised) == [shape |-> shape, wrapped |-> wrapped, raised |-> raised]

\* _adjust_text_box setting the width to the available width in every case
widen_and_fit_always(shape, available_width) ==
  Adjusted([shape EXCEPT !.geom.width = available_width,
                         !.paragraphs = apply_manual_fit(shape.paragraphs,
                                                         Some(available_width),
                                                         Some(shape.geom.height))],
           {<< >>}, "")

\* the body of _adjust_text_box from "Calculate new width" on
widen_and_fit(shape, available_width) ==
  LET width == IF available_width > shape.geom.width THEN available_width
               ELSE shape.geom.width
  IN Adjusted([shape EXCEPT !.geom.width = width,
                            !.paragraphs = apply_manual_fit(shape.paragraphs, Some(width),
                                                            Some(shape.geom.height))],
              {<< >>}, "")

\* LayoutAdjuster._adjust_text_box on all_shapes[i]. A shape or a sibling whose
\* geometry reads None raises inside the try before anything is changed.
adjust_text_box(all_shapes, i, prs_slide_width) ==
  IF all_shapes[i].kind = "table" THEN Adjusted(all_shapes[i], {}, "")
  ELSE IF \E j \in 1..Len(all_shapes) : ~all_shapes[j].geom.xfrm
  THEN Adjusted(all_shapes[i], {}, "")
  ELSE widen_and_fit(all_shapes[i],
                     max_right(all_shapes, i, prs_slide_width)
                       - all_shapes[i].geom.left - margin)

\* the cells of a table, each by its row and its place in the row
CellsOf(shape) ==
  UNION {{<<r, c>> : c \in 1..Len(shape.rows[r].cells)} : r \in 1..Len(shape.rows)}
\* the cell _adjust_table visits first
FirstCell(cells) ==
  CHOOSE rc \in cells : \A o \in cells : rc[1] < o[1] \/ (rc[1] = o[1] /\ rc[2] <= o[2])

fit_cell(cell, row_height) ==
  [cell EXCEPT !.paragraphs = apply_manual_fit(cell.paragraphs, Some(cell.width),
                                               Some(row_height))]
fit_row(row) ==
  [row EXCEPT !.cells = [c \in 1..Len(row.cells) |-> fit_cell(row.cells[c], row.height)]]

\* LayoutAdjuster._adjust_table: with cells that have no width the first cell
\* visited has its word_wrap set and cell.width raises
adjust_table(shape, has_width) ==
  IF CellsOf(shape) = {} THEN Adjusted(shape, {}, "")
  ELSE IF ~has_width THEN Adjusted(shape, {FirstCell(CellsOf(shape))}, "AttributeError")
  ELSE Adjusted([shape EXCEPT !.rows = [r \in 1..Len(shape.rows) |-> fit_row(shape.rows[r])]],
                CellsOf(shape), "")

fit_member(shape) ==
  IF HasTextFrame(shape)
  THEN [shape EXCEPT !.paragraphs = apply_manual_fit(shape.paragraphs, shape_width(shape),
                                                     shape_height(shape))]
  ELSE shape

\* LayoutAdjuster._adjust_group
adjust_group(group_shape) ==
  Adjusted([group_shape EXCEPT !.shapes =
              [k \in 1..Len(group_shape.shapes) |-> fit_member(group_shape.shapes[k])]],
           {<<k>> : k \in {j \in 1..Len(group_shape.shapes) :
                              HasTextFrame(group_shape.shapes[j])}},
           "")

(***************************************************************************)
(* State.                                                                  *)
(*  Codec: a paragraph's runs, the markup made from them (or a markup      *)
(*  string as the backend may return it), and one HTMLRunParser fed with   *)
(*  it, one goahead iteration at a time.                                   *)
(***************************************************************************)
VARIABLES
  src_runs,   \* the runs of the paragraph being encoded
  rawdata,    \* the markup handed to parser.feed
  parser,     \* the HTMLRunParser object
  pos,        \* goahead's position i in rawdata
  cpc,        \* "runs": to be encoded; "feed": being parsed; "done": feed returned;
              \* "rebuilt": _reconstruct_paragraph returned
  ckind,      \* "runs": rawdata comes from _paragraph_to_html; "raw": from outside
  rebuilt     \* the paragraph of src_runs after _reconstruct_paragraph

codecVars == <<src_runs, rawdata, parser, pos, cpc, ckind, rebuilt>>

(***************************************************************************)
(*  Pipeline: one PPTXProcessor.process() over a presentation.             *)
(***************************************************************************)
VARIABLES
  prs,         \* the presentation: the shapes of each slide
  orig,        \* the presentation as it was loaded
  translator,  \* "azure", "mock" or "stub"
  backend,     \* how the service answers the Translator's calls
  config,      \* the Config the translator carries
  pc,          \* "loop", "standard", "constrained", "done", "raised"
  slide_index, \* the slide of the loop of process(), counted from 1
  tasks,       \* the tasks _process_slide collected for that slide
  created,     \* every task made so far: its slide, paragraph and context
  consumed,    \* every task handed to a _process_batch call so far
  last,        \* the last _process_batch call: its items, response and effect
  raised       \* the exception that left process(), "" for none

pipeVars == <<prs, orig, translator, backend, config, pc, slide_index, tasks,
              created, consumed, last, raised>>

(***************************************************************************)
(*  Budget: one PPTXProcessor._calculate_max_chars call.                   *)
(***************************************************************************)
VARIABLES
  conf,            \* self.translator.config, as the call reads it
  original_length, \* the argument
  max_chars,       \* what the call returned
  mpc              \* "call": to be made; "done": returned

budgetVars == <<conf, original_length, max_chars, mpc>>

(***************************************************************************)
(*  Reflow: one LayoutAdjuster.adjust() over a presentation.               *)
(***************************************************************************)
VARIABLES
  lprs,        \* the adjuster's presentation: the shapes of each slide
  lorig,       \* the presentation as it was loaded
  slide_width, \* prs.slide_width
  cell_width,  \* whether the document model's cell objects have a width
  word_wrap,   \* the text frames whose word_wrap was set, by their paths
  lpc,         \* "shapes": in _adjust_slide's loop; "done", "raised"
  lslide,      \* the slide of the loop of adjust(), counted from 1
  lshape,      \* the shape of the loop of _adjust_slide, counted from 1
  lraised,     \* the exception that left adjust(), "" for none
  lpass,       \* the call of adjust() on this adjuster: the first or the second
  lfirst       \* the presentation as the first call of adjust() left it

layoutVars == <<lprs, lorig, slide_width, cell_width, word_wrap, lpc, lslide,
                lshape, lraised, lpass, lfirst>>

(***************************************************************************)
(*  Fitting: one LayoutAdjuster._apply_manual_fit or _scale_font_size call *)
(*  on a text frame.                                                       *)
(***************************************************************************)
VARIABLES
  fit_paragraphs, \* the paragraphs of the text frame before the call
  fit_width,      \* available_width, None for None
  fit_height,     \* available_height, None for None
  fit_factor,     \* the ratio given to _scale_font_size
  fit_result,     \* the paragraphs of the text frame after the call
  fpc             \* "fit", "scale": the call to be made; "fitted", "scaled": made

fitVars == <<fit_paragraphs, fit_width, fit_height, fit_factor, fit_result, fpc>>

(***************************************************************************)
(*  Gateway: one Translator.translate_batch call and the calls it makes    *)
(*  of itself.                                                             *)
(***************************************************************************)
VARIABLES
  gw_items,    \* items, as the caller gave them
  gw_template, \* system_prompt_template of the caller, "" for None
  gw_calls,    \* the calls of translate_batch still to be made, next first
  gw_backend,  \* what the service did with each request so far, by its ids
  gw_requests, \* the requests sent so far: prompt and ids
  gw_result,   \* the lists returned so far, joined
  gw_raised,   \* the exception that left translate_batch, "" for none
  gpc          \* "call": calls to be made; "done": the first call returned

gatewayVars == <<gw_items, gw_template, gw_calls, gw_backend, gw_requests, gw_result,
                 gw_raised, gpc>>

(***************************************************************************)
(*  Main: one run of main() on a file system.                              *)
(***************************************************************************)
VARIABLES
  files,       \* the files that exist
  input_file,  \* args.input_file
  output,      \* args.output, None when not given
  mainpc,      \* where main() is
  exit_code,   \* the exit code, None while main() runs
  reported     \* the path of the 'Done!' line, None when not printed

mainVars == <<files, input_file, output, mainpc, exit_code, reported>>

vars == <<codecVars, pipeVars, budgetVars, layoutVars, fitVars, gatewayVars, mainVars>>
otherThanCodec == <<pipeVars, budgetVars, layoutVars, fitVars, gatewayVars, mainVars>>
otherThanPipe == <<codecVars, budgetVars, layoutVars, fitVars, gatewayVars, mainVars>>
otherThanBudget == <<codecVars, pipeVars, layoutVars, fitVars, gatewayVars, mainVars>>
otherThanLayout == <<codecVars, pipeVars, budgetVars, fitVars, gatewayVars, mainVars>>
otherThanFit == <<codecVars, pipeVars, budgetVars, layoutVars, gatewayVars, mainVars>>
otherThanGateway == <<codecVars, pipeVars, budgetVars, layoutVars, fitVars, mainVars>>
otherThanMain == <<codecVars, pipeVars, budgetVars, layoutVars, fitVars, gatewayVars>>

NoBatch ==
  [slide |-> 0, context |-> "", tasks |-> << >>, items |-> << >>, answered |-> FALSE,
   response |-> << >>, before |-> << >>, raised |-> ""]

NoConfig ==
  [source_language |-> << >>, target_language |-> << >>, expansion_ratio |-> 100,
   presentation_body_prompt |-> "", constrained_text_prompt |-> ""]

\* the parts of the state a specification does not use
CodecIdle ==
  /\ src_runs = << >> /\ rawdata = << >> /\ parser = NewParser
  /\ pos = 1 /\ cpc = "idle" /\ ckind = "idle" /\ rebuilt = << >>
PipeIdle ==
  /\ prs = << >> /\ orig = << >> /\ translator = "none" /\ backend = "none"
  /\ config = NoConfig /\ pc = "idle" /\ slide_index = 1 /\ tasks = << >>
  /\ created = << >> /\ consumed = << >> /\ last = NoBatch /\ raised = ""
BudgetIdle ==
  /\ conf = NoConfig /\ original_length = 0 /\ max_chars = 0 /\ mpc = "idle"
LayoutIdle ==
  /\ lprs = << >> /\ lorig = << >> /\ slide_width = 0 /\ cell_width = FALSE
  /\ word_wrap = {} /\ lpc = "idle" /\ lslide = 1 /\ lshape = 1 /\ lraised = ""
  /\ lpass = 1 /\ lfirst = << >>
FitIdle ==
  /\ fit_paragraphs = << >> /\ fit_width = None /\ fit_height = None
  /\ fit_factor = FloatOf(1) /\ fit_result = << >> /\ fpc = "idle"
GatewayIdle ==
  /\ gw_items = << >> /\ gw_template = "" /\ gw_calls = << >> /\ gw_backend = << >>
  /\ gw_requests = << >> /\ gw_result = << >> /\ gw_raised = "" /\ gpc = "idle"
MainIdle ==
  /\ files = {} /\ input_file = << >> /\ output = None /\ mainpc = "idle"
  /\ exit_code = None /\ reported = None

(***************************************************************************)
(* Bounds of the codec's inputs.                                           *)
(***************************************************************************)
MaxRuns == 2
MaxText == 2
MaxItems == 4

RECURSIVE SeqsUpTo(_, _)
\* all sequences over S of length 0..n
SeqsUpTo(S, n) ==
  IF n = 0 THEN {<< >>}
  ELSE LET shorter == SeqsUpTo(S, n - 1)
       IN shorter \cup {Append(q, x) : q \in {t \in shorter : Len(t) = n - 1}, x \in S}

CodecChars == {"A", "&", LF}
Flags == [bold : BOOLEAN, italic : BOOLEAN, underline : BOOLEAN, strike : BOOLEAN]
CodecSizes == {None, Some(1200), Some(1050)}
CodecColors ==
  {NoColor, RGBColor(<<"F", "F", "0", "0", "0", "0">>), ThemeColor(5, 0), ThemeColor(5, 50)}

\* every combination of the four flags without size and colour, every size
\* and colour with and without bold
CodecRuns(maxlen) ==
  {Run(t, f.bold, f.italic, f.underline, f.strike, None, NoColor) :
     t \in SeqsUpTo(CodecChars, maxlen), f \in Flags}
  \cup
  {Run(t, b, FALSE, FALSE, FALSE, sz, col) :
     t \in SeqsUpTo(CodecChars, maxlen), b \in BOOLEAN, sz \in CodecSizes, col \in CodecColors}

RECURSIVE TotalText(_)
TotalText(runs) == IF runs = << >> THEN 0 ELSE Len(Head(runs).text) + TotalText(Tail(runs))

\* a bold run with a space before and after its word
HelloRun ==
  Run(<<" ", "H", "e", "l", "l", "o", " ">>, TRUE, FALSE, FALSE, FALSE, None, NoColor)

\* run texts with the reserved characters of the markup, with text that
\* reads like a reference, and with an apostrophe in ordinary text
ReservedTexts ==
  {<<"<">>, <<">">>, <<"\"">>, <<"'">>, <<"A", "<", "B", ">">>, <<"A", " ", "&", " ", "B">>,
   <<"&", "l", "t", ";">>, <<"&", "a", "m", "p", ";">>, <<"&", "g", "t">>,
   <<"&", "#", "3", "9", ";">>, <<"<", "b", ">">>}
ReservedRuns ==
  {Run(t, b, FALSE, FALSE, FALSE, None, NoColor) : t \in ReservedTexts, b \in BOOLEAN}

\* runs of a library whose fonts have no attribute 'strike'
StrikelessRuns ==
  {StrikelessRun(<<"A">>, b, i, FALSE, sz, NoColor) :
     b \in BOOLEAN, i \in BOOLEAN, sz \in CodecSizes}

CodecRunSeqs ==
  {q \in SeqsUpTo(CodecRuns(MaxText), 1) : Len(q) = 1}
  \cup {q \in SeqsUpTo(CodecRuns(MaxText - 1), MaxRuns) : Len(q) >= 2}
  \cup {<<HelloRun>>}
  \cup {<<r>> : r \in ReservedRuns}
  \cup {<<PlainRun(<<"A">>), r>> : r \in ReservedRuns}
  \cup {<<r>> : r \in StrikelessRuns}
  \cup {<<r, StrikelessRun(<<"A">>, FALSE, FALSE, TRUE, None, NoColor)>> : r \in StrikelessRuns}

RawItems ==
  {Ch("A"), Ch("&"), OpenTag("b", << >>), CloseTag("b"), OpenTag("i", << >>),
   CloseTag("i"), BrTag, StartEndTag("br"),
   VTag("sz", <<"1", "2">>), OpenTag("sz", <<Attr("v", None)>>)}

\* markup that strikes text through, alone and inside and around bold
StrikeMarkups ==
  {<<OpenTag("s", << >>), Ch("A"), CloseTag("s")>>,
   <<OpenTag("s", << >>), Ch("A")>>,
   <<OpenTag("b", << >>), OpenTag("s", << >>), Ch("A"), CloseTag("s"), Ch("A"), CloseTag("b")>>,
   <<Ch("A"), OpenTag("s", << >>), VTag("sz", <<"1", "2">>), Ch("A"), CloseTag("sz"), CloseTag("s")>>}

RawMarkups == SeqsUpTo(RawItems, MaxItems) \cup StrikeMarkups

\* the paragraph the markup is written back to: the one src_runs are the runs
\* of, its fonts with the attribute 'strike' or without it
CodecParagraphs ==
  IF src_runs = << >> THEN {Paragraph(<< >>, << >>), StrikelessParagraph(<< >>, << >>)}
  ELSE IF \A k \in 1..Len(src_runs) : ~HasStrike(src_runs[k])
  THEN {StrikelessParagraph(src_runs, << >>)}
  ELSE {Paragraph(src_runs, << >>)}

(***************************************************************************)
(* Codec actions.                                                          *)
(***************************************************************************)
CodecInit ==
  /\ PipeIdle /\ BudgetIdle /\ LayoutIdle /\ FitIdle /\ GatewayIdle /\ MainIdle
  /\ parser = NewParser
  /\ pos = 1
  /\ rebuilt = << >>
  /\ \/ /\ ckind = "runs" /\ cpc = "runs"
        /\ src_runs \in CodecRunSeqs
        /\ rawdata = << >>
     \/ /\ ckind = "raw" /\ cpc = "feed"
        /\ src_runs = << >>
        /\ rawdata \in RawMarkups

\* html_text = self._paragraph_to_html(paragraph)
Encode ==
  /\ cpc = "runs"
  /\ rawdata' = paragraph_to_html([runs |-> src_runs])
  /\ cpc' = "feed"
  /\ UNCHANGED <<src_runs, parser, pos, ckind, rebuilt, otherThanCodec>>

\* the iteration goahead is about to make, and what it looks at
Step == GoaheadStep(parser, rawdata, pos)
StepKind == IF NextTag(rawdata, pos) # pos THEN "ch" ELSE rawdata[pos].k

\* text up to the next tag: handle_data
FeedData ==
  /\ cpc = "feed" /\ ~Step.stop /\ StepKind = "ch"
  /\ parser' = Step.p
  /\ pos' = Step.i
  /\ UNCHANGED <<src_runs, rawdata, cpc, ckind, rebuilt, otherThanCodec>>

\* an open tag: handle_starttag
FeedStartTag ==
  /\ cpc = "feed" /\ ~Step.stop /\ StepKind = "open"
  /\ parser' = Step.p
  /\ pos' = Step.i
  /\ UNCHANGED <<src_runs, rawdata, cpc, ckind, rebuilt, otherThanCodec>>

\* a close tag: handle_endtag
FeedEndTag ==
  /\ cpc = "feed" /\ ~Step.stop /\ StepKind = "close"
  /\ parser' = Step.p
  /\ pos' = Step.i
  /\ UNCHANGED <<src_runs, rawdata, cpc, ckind, rebuilt, otherThanCodec>>

\* a self-closing tag: handle_startendtag
FeedStartEndTag ==
  /\ cpc = "feed" /\ ~Step.stop /\ StepKind = "startend"
  /\ parser' = Step.p
  /\ pos' = Step.i
  /\ UNCHANGED <<src_runs, rawdata, cpc, ckind, rebuilt, otherThanCodec>>

\* feed returns (end of input, text kept back, or an exception escaped)
FeedReturn ==
  /\ cpc = "feed" /\ Step.stop
  /\ cpc' = "done"
  /\ UNCHANGED <<src_runs, rawdata, parser, pos, ckind, rebuilt, otherThanCodec>>

\* the rest of _reconstruct_paragraph(paragraph, html_text), the paragraph
\* being the one the markup was made from
Reconstruct ==
  /\ cpc = "done"
  /\ \E paragraph \in CodecParagraphs :
       rebuilt' = IF rawdata = << >> THEN paragraph
                  ELSE rebuild_paragraph(paragraph, rawdata, parser)
  /\ cpc' = "rebuilt"
  /\ UNCHANGED <<src_runs, rawdata, parser, pos, ckind, otherThanCodec>>

CodecNext ==
  \/ Encode
  \/ FeedData
  \/ FeedStartTag
  \/ FeedEndTag
  \/ FeedStartEndTag
  \/ FeedReturn
  \/ Reconstruct

SpecCodec == CodecInit /\ [][CodecNext]_vars


(***************************************************************************)
(* Pipeline inputs: presentations, services and stub answers.              *)
(***************************************************************************)
MaxSlides == 2
MaxDepth == 2
MaxStubSlides == 1
MaxStubBatch == 2
MaxExtra == 1

G0 == Geom(0, 0, 1000, 1000)
P_A == Paragraph(<<PlainRun(<<"A">>)>>, << >>)
P_B == Paragraph(<<Run(<<"B">>, TRUE, FALSE, FALSE, FALSE, Some(1200), NoColor)>>, << >>)
P_blank == Paragraph(<<PlainRun(<<" ">>)>>, << >>)
\* a paragraph whose only text is a field's (a slide number)
P_fld == Paragraph(<< >>, <<"1">>)

TextFrames == {<<P_A>>, <<P_A, P_B>>, <<P_B, P_blank>>, <<P_fld, P_A>>}
Tables ==
  {TableShape(G0, <<Row(100, <<Cell(500, <<P_A>>), Cell(500, c)>>)>>) :
     c \in {<<P_blank>>, <<P_B>>}}
TA == TextShape(G0, <<P_A>>)

RECURSIVE Groups(_)
\* groups nested at most d deep
Groups(d) ==
  IF d = 0 THEN {}
  ELSE {GroupShape(G0, <<c>>) : c \in {TA} \cup Groups(d - 1)}
       \cup {GroupShape(G0, <<TA, c>>) : c \in Tables \cup Groups(d - 1)}

ShapePool == {TextShape(G0, f) : f \in TextFrames} \cup Tables \cup {Picture(G0)}
               \cup Groups(MaxDepth)
SlidePool ==
  {<<x>> : x \in ShapePool}
  \cup {<<TextShape(G0, f), x>> : f \in {<<P_A>>, <<P_A, P_B>>}, x \in ShapePool}
LastSlides == {<<TA>>, <<TableShape(G0, <<Row(100, <<Cell(500, <<P_A>>)>>)>>)>>}

RECURSIVE Docs(_)
\* presentations of at most n slides
Docs(n) ==
  IF n = 0 THEN {<< >>}
  ELSE IF n = 1 THEN {<< >>} \cup {<<sl>> : sl \in SlidePool}
  ELSE Docs(n - 1) \cup {Append(d, sl) : d \in {e \in Docs(n - 1) : Len(e) = n - 1},
                                         sl \in LastSlides}

\* the presentations processed with a stub: at most MaxStubBatch tasks a slide
StubDocs ==
  {d \in Docs(MaxStubSlides) : \A k \in 1..Len(d) : Len(slide_tasks(d[k])) <= MaxStubBatch}

PipeConfig ==
  [source_language |-> <<"J", "a", "p", "a", "n", "e", "s", "e">>,
   target_language |-> <<"E", "n", "g", "l", "i", "s", "h">>,
   expansion_ratio |-> 170,
   presentation_body_prompt |-> "presentation_body_prompt",
   constrained_text_prompt |-> "constrained_text_prompt"]

\* translated markup for item i
TrA(i) == TextItems(<<"T", DigitChar(i)>>)
TrB(i) == <<OpenTag("b", << >>)>> \o TextItems(<<"U", DigitChar(i)>>) \o <<CloseTag("b")>>
TrX == <<OpenTag("sz", <<Attr("v", None)>>), Ch("X")>>
\* markup without text, and text that ends in a reference cut short
TrNone == <<OpenTag("b", << >>), CloseTag("b")>>
TrHeld == TextItems(<<"A", "&", "x">>)

RECURSIVE SubBatches(_)
\* the id lists of the requests translate_batch can make for the ids sent
SubBatches(ids) ==
  {ids} \cup (IF Len(ids) > 1
              THEN SubBatches(Take(ids, Len(ids) \div 2))
                   \cup SubBatches(Drop(ids, Len(ids) \div 2))
              ELSE {})

\* what the prompt asks the service for: each id with its translated text
Echo(ids) == [k \in 1..Len(ids) |-> ResultDict(Some(ids[k]), None, Some(TrA(ids[k])))]

BackendModes ==
  {"error", "context_length_exceeded", "text", "scalar", "list", "dict", "nolist"}
ModeOutcome(mode, ids) ==
  CASE mode = "error" -> Error("Connection error.")
    [] mode = "context_length_exceeded" -> Error("context_length_exceeded")
    [] mode = "text" -> Content(JText)
    [] mode = "scalar" -> Content(JScalar)
    [] mode = "list" -> Content(JList(Echo(ids)))
    [] mode = "dict" -> Content(JDict(<<JScalar, JList(Echo(ids))>>))
    [] OTHER -> Content(JDict(<<JScalar>>))
BackendFn(mode, ids) == [q \in SubBatches(ids) |-> ModeOutcome(mode, q)]

SeqMax(ids) == CHOOSE m \in {ids[k] : k \in 1..Len(ids)} : \A k \in 1..Len(ids) : ids[k] <= m

\* the elements a stub's answer is made of, for the ids sent
StubShort(ids) == {ResultDict(Some(ids[k]), Some(TrA(ids[k])), None) : k \in 1..Len(ids)}
StubElements(ids) ==
  StubShort(ids)
  \cup {ResultDict(Some(ids[1]), Some(TrB(ids[1])), None),
        ResultDict(Some(ids[1]), Some(TrX), None),
        ResultDict(Some(ids[1]), Some(<< >>), None),
        ResultDict(Some(ids[1]), Some(TrNone), None),
        ResultDict(Some(ids[1]), Some(TrHeld), None),
        ResultDict(Some(ids[1]), None, Some(TrA(ids[1]))),
        ResultDict(None, Some(TrA(ids[1])), None),
        ResultDict(Some(SeqMax(ids) + 1), Some(TrA(SeqMax(ids) + 1)), None),
        ResultScalar}
\* answers with as many elements as were sent: well-formed ones in every
\* order and with repeats, and each of these with one element replaced by
\* one of any kind; shorter and longer answers of well-formed elements
StubResponses(ids) ==
  {[r EXCEPT ![k] = e] :
     r \in {q \in SeqsUpTo(StubShort(ids), Len(ids)) : Len(q) = Len(ids)},
     k \in 1..Len(ids), e \in StubElements(ids)}
  \cup {r \in SeqsUpTo(StubShort(ids), Len(ids) + MaxExtra) : Len(r) # Len(ids)}

Env(resp, fn) == [resp |-> resp, backend |-> fn]
\* what the translator's side can do with the batch made of these tasks
Envs(shapes, batch_tasks) ==
  LET ids == ItemIds(batch_items(shapes, batch_tasks, 1, config))
  IN IF ids = << >> THEN {Env(<< >>, << >>)}
     ELSE IF translator = "stub" THEN {Env(r, << >>) : r \in StubResponses(ids)}
     ELSE IF translator = "azure" THEN {Env(<< >>, BackendFn(backend, ids))}
     ELSE {Env(<< >>, << >>)}

(***************************************************************************)
(* Pipeline actions: PPTXProcessor.process and _process_slide.             *)
(***************************************************************************)
Init ==
  /\ CodecIdle /\ BudgetIdle /\ LayoutIdle /\ FitIdle /\ GatewayIdle /\ MainIdle
  /\ translator \in {"azure", "mock", "stub"}
  /\ backend \in (IF translator = "azure" THEN BackendModes ELSE {"none"})
  /\ prs \in (IF translator = "stub" THEN StubDocs ELSE Docs(MaxSlides))
  /\ orig = prs
  /\ config = PipeConfig
  /\ pc = "loop"
  /\ slide_index = 1
  /\ tasks = << >>
  /\ created = << >>
  /\ consumed = << >>
  /\ last = NoBatch
  /\ raised = ""

TaskRefs(slide, ts) ==
  [k \in 1..Len(ts) |-> [slide |-> slide, paragraph |-> ts[k].paragraph,
                           context |-> ts[k].context]]

\* where _process_slide goes on after the walk or after a batch
AfterWalk(ts) ==
  IF tasks_of(ts, "standard") # << >> THEN "standard"
  ELSE IF tasks_of(ts, "constrained") # << >> THEN "constrained"
  ELSE "loop"
AfterStandard(ts) == IF tasks_of(ts, "constrained") # << >> THEN "constrained" ELSE "loop"

\* the walk of _process_slide over the shapes of the next slide
CollectTasks ==
  /\ pc = "loop" /\ slide_index <= Len(prs)
  /\ \E ts \in {slide_tasks(prs[slide_index])} : \E next \in {AfterWalk(ts)} :
        /\ tasks' = ts
        /\ created' = created \o TaskRefs(slide_index, ts)
        /\ pc' = next
        /\ slide_index' = IF next = "loop" THEN slide_index + 1 ELSE slide_index
  /\ UNCHANGED <<prs, orig, translator, backend, config, consumed, last, raised, otherThanPipe>>

\* one _process_batch call and what follows it
RunBatch(context, prompt_template, next) ==
  \E batch_tasks \in {tasks_of(tasks, context)} :
  \E env \in Envs(prs[slide_index], batch_tasks) :
  \E r \in {process_batch(prs[slide_index], batch_tasks, prompt_template,
                          translator, config, env)} :
     /\ prs' = [prs EXCEPT ![slide_index] = r.shapes]
     /\ consumed' = consumed \o TaskRefs(slide_index, batch_tasks)
     /\ last' = [slide |-> slide_index, context |-> context,
                 tasks |-> batch_tasks, items |-> r.items, answered |-> r.answered,
                 response |-> r.response, before |-> prs[slide_index],
                 raised |-> r.raised]
     /\ raised' = r.raised
     /\ pc' = IF r.raised # "" THEN "raised" ELSE next
     /\ slide_index' = IF r.raised = "" /\ next = "loop"
                       THEN slide_index + 1 ELSE slide_index
     /\ UNCHANGED <<orig, translator, backend, config, tasks, created, otherThanPipe>>

\* self._process_batch(standard_tasks, config.presentation_body_prompt, ...)
ProcessStandardBatch ==
  /\ pc = "standard"
  /\ RunBatch("standard", config.presentation_body_prompt, AfterStandard(tasks))

\* self._process_batch(constrained_tasks, config.constrained_text_prompt, ...)
ProcessConstrainedBatch ==
  /\ pc = "constrained"
  /\ RunBatch("constrained", config.constrained_text_prompt, "loop")

\* the loop over the slides is over: process() returns
ProcessReturn ==
  /\ pc = "loop" /\ slide_index > Len(prs)
  /\ pc' = "done"
  /\ UNCHANGED <<prs, orig, translator, backend, config, slide_index, tasks,
                 created, consumed, last, raised, otherThanPipe>>

Next ==
  \/ CollectTasks
  \/ ProcessStandardBatch
  \/ ProcessConstrainedBatch
  \/ ProcessReturn

Spec == Init /\ [][Next]_vars

(***************************************************************************)
(* Codec claims.                                                           *)
(***************************************************************************)
\* the style a source run has, in the terms of a decoded style
StyleOfRun(run) ==
  [bold |-> run.bold, italic |-> run.italic, underline |-> run.underline,
   strike |-> HasStrike(run) /\ run.strike,
   font_size |-> IF IsNone(run.size) \/ run.size = Some(0) THEN None ELSE run.size,
   color_rgb |-> IF run.color.type = 1 THEN Some(run.color.rgb) ELSE None,
   theme_color |-> IF run.color.type = 2 THEN Some(run.color.theme_color) ELSE None,
   brightness |-> IF run.color.type = 2 /\ run.color.brightness # 0
                  THEN Some(run.color.brightness) ELSE None]

\* a line break, however the source spells it, is the sentinel VT
CanonText(text) ==
  Replace(Replace(Replace(text, X000B, <<VT>>), <<LF>>, <<VT>>), <<CR>>, <<VT>>)

RECURSIVE CharStyles(_, _)
\* the characters of a run sequence, each with the style it carries;
\* styleOf gives the style of one run
CharStyles(runs, source) ==
  IF runs = << >> THEN << >>
  ELSE LET r == Head(runs)
           t == IF source THEN CanonText(r.text) ELSE r.text
           st == IF source THEN StyleOfRun(r) ELSE r.style
       IN [i \in 1..Len(t) |-> [c |-> t[i], style |-> st]] \o CharStyles(Tail(runs), source)

Decoded == cpc = "done" /\ ckind = "runs"

\* C1 (as claimed): decoding the markup of any run sequence gives runs with
\* the same text (a line break read as the sentinel) and the same style on
\* every character, and does not raise.
C1_RoundTrip ==
  Decoded => /\ parser.raised = ""
             /\ CharStyles(parser.runs, FALSE) = CharStyles(src_runs, TRUE)

RECURSIVE Unclosed(_, _)
\* an open <tag> of the markup has no </tag> after it
Unclosed(markup, tag) ==
  IF markup = << >> THEN FALSE
  ELSE \/ /\ Head(markup) = OpenTag(tag, << >>)
          /\ \A k \in 1..Len(Tail(markup)) : Tail(markup)[k] # CloseTag(tag)
       \/ Unclosed(Tail(markup), tag)

\* the markup ends with text that follows an unclosed <tag>
TextAfterUnclosed(markup, tag) ==
  /\ markup # << >>
  /\ markup[Len(markup)].k = "ch"
  /\ Unclosed(markup, tag)

LastRun == parser.runs[Len(parser.runs)]

\* C2 (as claimed): decoding any string of text, open tags and close tags
\* returns a run list without raising, and text that follows an unclosed
\* open tag carries that tag's style.
C2_TolerantDecode ==
  (cpc = "done" /\ ckind = "raw") =>
     /\ parser.raised = ""
     /\ TextAfterUnclosed(rawdata, "b") => (parser.runs # << >> /\ LastRun.style.bold)
     /\ TextAfterUnclosed(rawdata, "i") => (parser.runs # << >> /\ LastRun.style.italic)

\* the part of C2 that the test test_broken_html_resilience states
C2_NoRaise == (cpc = "done" /\ ckind = "raw") => parser.raised = ""
C2_UnclosedStyle ==
  (cpc = "done" /\ ckind = "raw" /\ parser.raised = "") =>
     (TextAfterUnclosed(rawdata, "b") => (parser.runs # << >> /\ LastRun.style.bold))

\* the texts of the decoded runs
DecodedTexts == [k \in 1..Len(parser.runs) |-> parser.runs[k].text]

\* C16 (as claimed): the markup of a bold run ' Hello ' carries its two
\* spaces as explicit tokens, not as plain spaces of the text, and decodes
\* to exactly three runs: one space, 'Hello', one space.
C16_SpacePreservation ==
  (Decoded /\ src_runs = <<HelloRun>>) =>
     /\ \A k \in 1..Len(rawdata) : rawdata[k] # Ch(" ")
     /\ DecodedTexts = << <<" ">>, <<"H", "e", "l", "l", "o">>, <<" ">> >>

RECURSIVE OpenStack(_, _)
\* the open tags of the first n items of the markup that are not closed
\* there, by their places, innermost last: a close tag closes the innermost
\* open tag when that has its name, and is stray otherwise; a line-break
\* marker opens nothing
OpenStack(items, n) ==
  IF n = 0 THEN << >>
  ELSE LET st == OpenStack(items, n - 1)
           it == items[n]
       IN IF it.k = "open" /\ LowerTag(it.tag) # "br" THEN Append(st, n)
          ELSE IF it.k = "close" /\ st # << >>
                  /\ LowerTag(items[st[Len(st)]].tag) = LowerTag(it.tag)
          THEN Take(st, Len(st) - 1)
          ELSE st
\* the close tag at place n closes the open tag at the place returned, 0 if none
MatchOf(items, n) ==
  LET st == OpenStack(items, n - 1)
  IN IF items[n].k = "close" /\ st # << >>
        /\ LowerTag(items[st[Len(st)]].tag) = LowerTag(items[n].tag)
     THEN st[Len(st)] ELSE 0
\* every close tag among the first n items closes an open tag
WellNested(items, n) ==
  \A k \in 1..n : items[k].k = "close" => MatchOf(items, k) # 0

RECURSIVE ParserAt(_, _, _, _)
\* the parser as goahead has it when it comes to the tag at place stop
ParserAt(p, raw, i, stop) ==
  IF i >= stop THEN p
  ELSE LET r == GoaheadStep(p, raw, i)
       IN IF r.stop THEN r.p ELSE ParserAt(r.p, raw, r.i, stop)

Feeding == cpc \in {"feed", "done"} /\ ckind = "raw" /\ parser.raised = ""
\* the names of the tags open around the place just passed
Enclosing == {LowerTag(rawdata[OpenStack(rawdata, pos - 1)[k]].tag) :
                k \in 1..Len(OpenStack(rawdata, pos - 1))}

\* C18 (as claimed): right after a close tag that closes an earlier open
\* tag the current style is the one that was current just before that open
\* tag, whatever lies between the two; and in markup whose close tags all
\* close an open tag, text carries the style of every tag open around it.
C18_StyleStackDiscipline ==
  (Feeding /\ pos > 1) =>
     /\ MatchOf(rawdata, pos - 1) # 0 =>
          parser.current_style
            = ParserAt(NewParser, rawdata, 1, MatchOf(rawdata, pos - 1)).current_style
     /\ (rawdata[pos - 1].k = "ch" /\ WellNested(rawdata, pos - 1) /\ parser.runs # << >>) =>
          /\ "b" \in Enclosing => LastRun.style.bold
          /\ "i" \in Enclosing => LastRun.style.italic

\* the close tag at place n has no open tag of its name still open before it
Stray(items, n) ==
  /\ items[n].k = "close"
  /\ \A k \in 1..Len(OpenStack(items, n - 1)) :
       LowerTag(items[OpenStack(items, n - 1)[k]].tag) # LowerTag(items[n].tag)

\* C19 (as claimed): handling a close tag that no open tag of its name is
\* waiting for, whether other tags are open or none is, leaves the current
\* style and the style stack as they were.
C19_StrayCloseNoOp ==
  [][(cpc = "feed" /\ ~Step.stop /\ StepKind = "close" /\ Stray(rawdata, pos)) =>
        /\ parser'.current_style = parser.current_style
        /\ parser'.style_stack = parser.style_stack]_vars

\* the characters that stand for a line break in a run's text
HasBreak(text) ==
  \/ \E k \in 1..Len(text) : text[k] \in {LF, CR, VT}
  \/ Contains(text, X000B)

\* C25 (as claimed): when the runs of a paragraph hold ordinary characters,
\* the reserved characters and quotes, and text that reads like a reference
\* ('&lt;', '&amp;'), but no line break, the text of the paragraph after
\* encoding, decoding and reconstruction is the text it had.
C25_ReservedCharactersSurvive ==
  (cpc = "rebuilt" /\ ckind = "runs" /\ ~HasBreak(RunsText(src_runs))) =>
     ParagraphText(rebuilt) = RunsText(src_runs)

(***************************************************************************)
(* Pipeline claims. They speak of the last _process_batch call: the items  *)
(* it built, the answer the translator returned and the slide before and   *)
(* after.                                                                  *)
(***************************************************************************)
BatchDone == last.slide # 0
\* the translator's call of the last batch returned an answer
Answered == BatchDone /\ last.answered
ParaBefore(item) == GetPara(last.before, item.task_ref.paragraph)
ParaAfter(item) == GetPara(prs[last.slide], item.task_ref.paragraph)
SentIds == {last.items[k].id : k \in 1..Len(last.items)}
\* the positions of the answer that carry this id
Carrying(id) == {k \in 1..Len(last.response) : last.response[k].id = Some(id)}
WellFormed(e) == e.k = "dict" /\ ~IsNone(e.id) /\ ~IsNone(e.translation)
\* the answer holds exactly the ids sent, each once and with a translation
ExactIds ==
  /\ Len(last.response) = Len(last.items)
  /\ \A k \in 1..Len(last.response) : WellFormed(last.response[k])
  /\ \A id \in SentIds : Cardinality(Carrying(id)) = 1
TheOne(S) == CHOOSE x \in S : TRUE
LastOf(S) == CHOOSE x \in S : \A y \in S : y <= x

\* C3: when the answer to a batch holds exactly the ids sent, in any order,
\* every item's paragraph is rebuilt from the translation that carries the
\* item's own id (and shows that translation's text).
C3_ReconcileById ==
  (Answered /\ ExactIds) =>
     \A k \in 1..Len(last.items) :
        LET item == last.items[k]
            e == last.response[TheOne(Carrying(item.id))]
        IN /\ ParaAfter(item) = reconstruct_paragraph(ParaBefore(item), e.translation)
           /\ e.translation = Some(TrA(item.id)) =>
                 RunsText(ParaAfter(item).runs) = <<"T", DigitChar(item.id)>>

\* a batch of two whose answers came back in reverse order and were applied
C3_Witness ==
  /\ Answered /\ ExactIds
  /\ Len(last.items) = 2
  /\ last.response[1].id = Some(last.items[2].id)
  /\ last.response[2].id = Some(last.items[1].id)
  /\ \A k \in 1..2 :
        /\ last.response[k].translation = Some(TrA(Val(last.response[k].id)))
        /\ RunsText(ParaAfter(last.items[k]).runs) = <<"T", DigitChar(last.items[k].id)>>

\* C4: when the answer to a batch has missing ids, extra ids or another
\* number of entries than were sent, nothing is raised, every item whose id
\* the answer carries is translated from it, and every item whose id is
\* absent keeps its paragraph.
C4_PerItemErrors ==
  (Answered /\ \A k \in 1..Len(last.response) : WellFormed(last.response[k])) =>
     /\ last.raised = ""
     /\ \A k \in 1..Len(last.items) :
          LET item == last.items[k]
          IN IF Carrying(item.id) = {}
             THEN ParaAfter(item) = ParaBefore(item)
             ELSE ParaAfter(item) =
                    reconstruct_paragraph(ParaBefore(item),
                       last.response[LastOf(Carrying(item.id))].translation)

\* C5: when the backend call for a batch fails, nothing is raised and no
\* paragraph of the batch is modified, so that the run goes on.
C5_BackendFailureFailsClosed ==
  (translator = "azure" /\ backend = "error" /\ BatchDone) =>
     /\ last.raised = "" /\ pc # "raised"
     /\ prs[last.slide] = last.before

\* C6: no error of a batch or a paragraph leaves process().
C6_NothingReachesTopLevel == raised = "" /\ pc # "raised"

\* C7: a task made for a paragraph under a group (at any depth) or in a
\* table cell has context 'constrained'; a task has context 'standard'
\* only for a paragraph of a top-level text shape.
C7_WalkerContext ==
  \A k \in 1..Len(created) :
     LET top == orig[created[k].slide][created[k].paragraph[1]]
     IN created[k].context = IF top.kind = "text" THEN "standard" ELSE "constrained"

\* tasks were made for a paragraph two groups deep, for one in a table
\* cell and for one in a top-level text shape
C7_Witness ==
  /\ \E k \in 1..Len(created) :
        LET top == orig[created[k].slide][created[k].paragraph[1]]
        IN /\ top.kind = "group"
           /\ top.shapes[created[k].paragraph[2]].kind = "group"
           /\ created[k].context = "constrained"
  /\ \E k \in 1..Len(created) :
        /\ orig[created[k].slide][created[k].paragraph[1]].kind = "table"
        /\ created[k].context = "constrained"
  /\ \E k \in 1..Len(created) : created[k].context = "standard"

RECURSIVE ParaPaths(_, _)
\* the paths of all the paragraphs under a shape reached by path
ParaPaths(shape, path) ==
  CASE shape.kind = "group" ->
         UNION {ParaPaths(shape.shapes[k], Append(path, k)) : k \in 1..Len(shape.shapes)}
    [] shape.kind = "table" ->
         UNION {UNION {{path \o <<r, c, p>> :
                          p \in 1..Len(shape.rows[r].cells[c].paragraphs)} :
                       c \in 1..Len(shape.rows[r].cells)} :
                  r \in 1..Len(shape.rows)}
    [] shape.kind = "text" -> {Append(path, p) : p \in 1..Len(shape.paragraphs)}
    [] OTHER -> {}
\* the paragraphs of a slide whose trimmed text is non-empty
NonBlankPaths(shapes) ==
  {q \in UNION {ParaPaths(shapes[k], <<k>>) : k \in 1..Len(shapes)} :
     ~IsBlank(ParagraphText(GetPara(shapes, q)))}
Walked(sl) == sl < slide_index \/ (sl = slide_index /\ pc \in {"standard", "constrained", "raised"})
Ref(e) == <<e.slide, e.paragraph>>
NoRepeat(q) == \A j, k \in 1..Len(q) : Ref(q[j]) = Ref(q[k]) => j = k

\* C8: a walk makes exactly one task for each non-blank paragraph of the
\* slide and none for a blank one; no task is consumed twice; and when the
\* run is over every task has been consumed.
C8_TaskUniqueness ==
  /\ NoRepeat(created)
  /\ \A sl \in 1..Len(orig) : Walked(sl) =>
        {created[k].paragraph : k \in {j \in 1..Len(created) : created[j].slide = sl}}
          = NonBlankPaths(orig[sl])
  /\ NoRepeat(consumed)
  /\ pc \in {"done", "raised"} =>
        {Ref(consumed[k]) : k \in 1..Len(consumed)} = {Ref(created[k]) : k \in 1..Len(created)}

\* the translation _process_batch applied to the item, None for none: the
\* last entry of the answer that carries the item's id
Applied(item) ==
  IF Carrying(item.id) = {} THEN None
  ELSE last.response[LastOf(Carrying(item.id))].translation
\* the last batch went through reconciliation without raising
Reconciled == Answered /\ last.raised = "" /\ Len(last.response) = Len(last.items)
\* the markup decodes to no run at all
DecodesToNothing(html_text) == Feed(html_text).raised = "" /\ Feed(html_text).runs = << >>

\* C14: an item whose translation is empty or decodes to no run at all
\* keeps its paragraph, runs and text, as it was; and no item of a batch,
\* however its translation was decoded, is left with an empty run list.
C14_ZeroRunsKeepParagraph ==
  Reconciled =>
     \A k \in 1..Len(last.items) :
        LET item == last.items[k]
        IN /\ (~IsNone(Applied(item))
                 /\ (Val(Applied(item)) = << >> \/ DecodesToNothing(Val(Applied(item)))))
              => ParaAfter(item) = ParaBefore(item)
           /\ ParaAfter(item).runs # << >>

\* a batch of two: the first item's translation is markup without text and
\* its paragraph is as before, the second item's paragraph was rebuilt
C14_Witness ==
  /\ Reconciled /\ Len(last.items) = 2
  /\ Applied(last.items[1]) = Some(TrNone)
  /\ ParaAfter(last.items[1]) = ParaBefore(last.items[1])
  /\ ParaAfter(last.items[1]).runs # << >>
  /\ ParaAfter(last.items[2]) # ParaBefore(last.items[2])

\* the size a decoded run asks for, 18 points when it names none
DecodedSize(prun) ==
  IF IsNone(prun.style.font_size) \/ Val(prun.style.font_size) = 0 THEN DefaultSize
  ELSE Val(prun.style.font_size)
RECURSIVE DecodedWidthFrom(_, _)
DecodedWidthFrom(width, pruns) ==
  IF pruns = << >> THEN width
  ELSE DecodedWidthFrom(text_linear_width(width, html_unescape(Head(pruns).text),
                                          DecodedSize(Head(pruns))),
                        Tail(pruns))
\* the estimated width of the decoded runs at the sizes they ask for
DecodedWidth(pruns) == DecodedWidthFrom(Zero, pruns)
\* size is decoded * ow / tw to the hundredth of a point, or 6 points when
\* that is less
ShrunkTo(size, decoded, ow, tw) ==
  LET shrunk == FloatInt(FloatMul(FloatOf(decoded), FloatDiv(ow, tw)))
  IN IF shrunk < MinSize THEN size = MinSize
     ELSE size \in (shrunk - 1)..(shrunk + 1)

\* C15 (as claimed): a paragraph of a constrained batch that is rebuilt from
\* its translation has, on every new run, the decoded size multiplied by
\* min(1, estimated width of the original / estimated width of the
\* translation), and 6 points where that is less: smaller when the
\* translation is wider, the decoded size otherwise.
C15_ConstrainedShrinks ==
  (Reconciled /\ last.context = "constrained") =>
     \A k \in 1..Len(last.items) :
        LET item == last.items[k]
            tr == Applied(item)
        IN (~IsNone(tr) /\ Val(tr) # << >> /\ Feed(Val(tr)).raised = ""
              /\ Feed(Val(tr)).runs # << >>) =>
             LET dec == Feed(Val(tr)).runs
                 ow == estimate_paragraph_linear_width(ParaBefore(item))
                 tw == DecodedWidth(dec)
                 after == ParaAfter(item).runs
             IN /\ Len(after) = Len(dec)
                /\ \A j \in 1..Len(after) :
                      IF FloatLess(ow, tw)
                      THEN /\ ~IsNone(after[j].size)
                           /\ ShrunkTo(Val(after[j].size), DecodedSize(dec[j]), ow, tw)
                      ELSE SizeOrDefault(after[j]) = DecodedSize(dec[j])

\* C17 (as claimed): when process() has run with the MockTranslator, every
\* non-blank paragraph of the presentation shows the mock marker followed
\* by the text it had.
C17_MockTranslation ==
  (translator = "mock" /\ pc = "done") =>
     \A sl \in 1..Len(orig) : \A q \in NonBlankPaths(orig[sl]) :
        ParagraphText(GetPara(prs[sl], q)) = ItemText(EN) \o ParagraphText(GetPara(orig[sl], q))

(***************************************************************************)
(* The character budget alone: _calculate_max_chars for every language     *)
(* pair, ratio and length of the bounds below. The ratios are the values   *)
(* of expansion_ratio in hundredths; some of them have no exact binary     *)
(* form, so that a product that is a whole number in decimals falls just   *)
(* below it in the floating point arithmetic of the code.                  *)
(***************************************************************************)
MaxLength == 100

N_Japanese == <<"J", "a", "p", "a", "n", "e", "s", "e">>
N_English == <<"E", "n", "g", "l", "i", "s", "h">>
N_JAPANESE == <<"J", "A", "P", "A", "N", "E", "S", "E">>
N_BritishEnglish == <<"B", "r", "i", "t", "i", "s", "h", " ", "E", "n", "g", "l", "i", "s", "h">>
N_French == <<"F", "r", "e", "n", "c", "h">>
N_EnglishJapanese == <<"E", "n", "g", "l", "i", "s", "h", "/", "J", "a", "p", "a", "n", "e", "s", "e">>
N_japan == <<"j", "a", "p", "a", "n">>
LanguageNames ==
  {N_Japanese, N_English, N_JAPANESE, N_BritishEnglish, N_French, N_EnglishJapanese,
   N_japan, << >>}
Ratios == {0, 50, 100, 104, 115, 130, 140, 170, 200}

MaxCharsInit ==
  /\ CodecIdle /\ PipeIdle /\ LayoutIdle /\ FitIdle /\ GatewayIdle /\ MainIdle
  /\ conf \in {[NoConfig EXCEPT !.source_language = s, !.target_language = t,
                                 !.expansion_ratio = r] :
                  s \in LanguageNames, t \in LanguageNames, r \in Ratios}
  /\ original_length \in 0..MaxLength
  /\ max_chars = 0
  /\ mpc = "call"

\* max_chars = self._calculate_max_chars(raw_text_length)
CalculateMaxChars ==
  /\ mpc = "call"
  /\ max_chars' = calculate_max_chars(original_length, conf)
  /\ mpc' = "done"
  /\ UNCHANGED <<conf, original_length, otherThanBudget>>

MaxCharsNext == CalculateMaxChars

SpecMaxChars == MaxCharsInit /\ [][MaxCharsNext]_vars

(***************************************************************************)
(* C9. Which names hold 'japanese' and which 'english', whatever the case  *)
(* of their letters, is written out here name by name.                     *)
(***************************************************************************)
JapaneseNames == {N_Japanese, N_JAPANESE, N_EnglishJapanese}
EnglishNames == {N_English, N_BritishEnglish, N_EnglishJapanese}
ForwardPair == conf.source_language \in JapaneseNames /\ conf.target_language \in EnglishNames
ReversePair ==
  /\ ~ForwardPair
  /\ conf.source_language \in EnglishNames /\ conf.target_language \in JapaneseNames

\* the integer part of the exact length * ratio / 100 and of length * 100 / ratio
ExactForward == (original_length * conf.expansion_ratio) \div 100
ExactReverse == (original_length * 100) \div conf.expansion_ratio

\* C9: the budget is the integer part of the floating point product of the
\* length and the ratio for a source name holding 'japanese' and a target name
\* holding 'english', of the length and 1.0 / ratio for the reverse pair when
\* the ratio is not 0, and the length itself in every other case; it is the
\* integer part of the exact product or one below it; with ratio 1.7, 10 gives
\* 17 and, reversed, 100 gives 58.
C9_ExpansionBudget ==
  mpc = "done" =>
    /\ ForwardPair =>
          /\ max_chars = FloatInt(FloatMul(FloatOf(original_length),
                                           Hundredths(conf.expansion_ratio)))
          /\ max_chars \in {ExactForward - 1, ExactForward}
    /\ (ReversePair /\ conf.expansion_ratio # 0) =>
          /\ max_chars = FloatInt(FloatMul(FloatOf(original_length),
                             FloatDiv(FloatOf(1), Hundredths(conf.expansion_ratio))))
          /\ max_chars \in {ExactReverse - 1, ExactReverse}
    /\ (~ForwardPair /\ ~(ReversePair /\ conf.expansion_ratio # 0)) =>
          max_chars = original_length
    /\ (conf.source_language = N_Japanese /\ conf.target_language = N_English
         /\ conf.expansion_ratio = 170 /\ original_length = 10) => max_chars = 17
    /\ (conf.source_language = N_English /\ conf.target_language = N_Japanese
         /\ conf.expansion_ratio = 170 /\ original_length = 100) => max_chars = 58

\* the reverse pair at ratio 1.7 and length 100 has been given its budget of 58,
\* with names that hold the language in other letter cases and inside longer names
C9_Witness ==
  /\ mpc = "done"
  /\ conf.source_language = N_BritishEnglish /\ conf.target_language = N_JAPANESE
  /\ conf.expansion_ratio = 170 /\ original_length = 100 /\ max_chars = 58

(***************************************************************************)
(* Bounds and inputs of the reflow: slides of text boxes, pictures, tables *)
(* and groups placed so that a box has free room to its right, a sibling   *)
(* on its band, a sibling that only touches its band, or no room at all.   *)
(***************************************************************************)
MaxLayoutShapes == 3
MaxLayoutSlides == 2

L_long ==
  Paragraph(<<Run(<<"A", "A", "A", "A", "A", "A">>, FALSE, FALSE, FALSE, FALSE,
                  Some(1200), NoColor)>>, << >>)
L_wide == Paragraph(<<PlainRun(<<"U+3042", "U+3042">>)>>, << >>)
L_mixed ==
  Paragraph(<<PlainRun(<<"A", LF, "B">>),
              Run(<<"C">>, FALSE, TRUE, FALSE, FALSE, Some(700), NoColor)>>, << >>)
L_empty == Paragraph(<< >>, << >>)

LayoutTexts ==
  {TextShape(Geom(0, 0, 200000, 300000), <<P_A>>),
   TextShape(Geom(0, 0, 200000, 100000), <<L_long>>),
   TextShape(Geom(800000, 0, 200000, 300000), <<L_wide, P_B>>),
   TextShape(Geom(400000, 300000, 200000, 300000), <<P_A, P_B>>),
   TextShape(Geom(300000, 100000, 250000, 50000), <<L_mixed, L_empty>>),
   TextShape(NoGeom, <<L_long>>)}
LayoutPictures ==
  {Picture(Geom(600000, 100000, 100000, 100000)),
   Picture(Geom(700000, 700000, 100000, 100000))}
LayoutTables ==
  {TableShape(Geom(0, 500000, 400000, 200000),
              <<Row(100000, <<Cell(200000, <<L_long>>), Cell(0, <<P_A>>)>>),
                Row(0, <<Cell(200000, <<L_wide>>)>>)>>),
   TableShape(Geom(500000, 500000, 400000, 200000), << >>)}
LayoutGroups ==
  {GroupShape(Geom(0, 700000, 300000, 200000),
              <<TextShape(Geom(0, 0, 150000, 100000), <<L_long>>),
                Picture(Geom(0, 0, 10, 10)),
                TextShape(NoGeom, <<P_B>>)>>),
   GroupShape(Geom(500000, 0, 300000, 200000),
              <<GroupShape(Geom(0, 0, 100, 100),
                           <<TextShape(Geom(0, 0, 150000, 100000), <<L_long>>)>>),
                TableShape(Geom(0, 0, 100, 100),
                           <<Row(100000, <<Cell(200000, <<L_long>>)>>)>>)>>)}
LayoutShapes == LayoutTexts \cup LayoutPictures \cup LayoutTables \cup LayoutGroups
\* the shapes a slide has after its second
MoreLayoutShapes ==
  {TextShape(Geom(800000, 700000, 200000, 100000), <<P_B>>),
   Picture(Geom(600000, 100000, 100000, 100000)),
   TableShape(Geom(0, 500000, 400000, 200000),
              <<Row(50000, <<Cell(100000, <<L_mixed>>)>>)>>)}

RECURSIVE LayoutSlides(_)
\* slides of at most n shapes
LayoutSlides(n) ==
  IF n <= 2 THEN SeqsUpTo(LayoutShapes, n)
  ELSE LayoutSlides(n - 1)
       \cup {Append(sl, x) : sl \in {e \in LayoutSlides(n - 1) : Len(e) = n - 1},
                             x \in MoreLayoutShapes}
LaterLayoutSlides == {<<TextShape(Geom(0, 0, 200000, 100000), <<L_long>>)>>}

RECURSIVE LayoutDocs(_)
\* presentations of at most n slides
LayoutDocs(n) ==
  IF n = 0 THEN {<< >>}
  ELSE IF n = 1 THEN {<< >>} \cup {<<sl>> : sl \in LayoutSlides(MaxLayoutShapes)}
  ELSE LayoutDocs(n - 1)
       \cup {Append(d, sl) : d \in {e \in LayoutDocs(n - 1) : Len(e) = n - 1},
                             sl \in LaterLayoutSlides}
SlideWidths == {1000000, 350000}

LayoutInit ==
  /\ CodecIdle /\ PipeIdle /\ BudgetIdle /\ FitIdle /\ GatewayIdle /\ MainIdle
  /\ lprs \in LayoutDocs(MaxLayoutSlides)
  /\ lorig = lprs
  /\ slide_width \in SlideWidths
  /\ cell_width \in BOOLEAN
  /\ word_wrap = {}
  /\ lpc = "shapes"
  /\ lslide = 1
  /\ lshape = 1
  /\ lraised = ""
  /\ lpass = 1
  /\ lfirst = << >>

\* _adjust_slide's loop is at a shape
AtShape == lpc = "shapes" /\ lslide <= Len(lprs) /\ lshape <= Len(lprs[lslide])

\* what one pass of the loop of _adjust_slide leaves, r being what the
\* _adjust_* call of the pass did
AfterAdjust(r) ==
  /\ lprs' = [lprs EXCEPT ![lslide][lshape] = r.shape]
  /\ word_wrap' = word_wrap \cup {<<lslide, lshape>> \o q : q \in r.wrapped}
  /\ lraised' = r.raised
  /\ lpc' = IF r.raised # "" THEN "raised" ELSE lpc
  /\ lshape' = IF r.raised # "" THEN lshape ELSE lshape + 1
  /\ UNCHANGED <<lorig, slide_width, cell_width, lslide, lpass, lfirst, otherThanLayout>>

\* if shape.has_text_frame: self._adjust_text_box(shape, shapes, slide.slide_layout)
AdjustTextBox ==
  /\ AtShape /\ HasTextFrame(lprs[lslide][lshape])
  /\ \E r \in {adjust_text_box(lprs[lslide], lshape, slide_width)} : AfterAdjust(r)

\* if shape.has_table: self._adjust_table(shape)
AdjustTable ==
  /\ AtShape /\ HasTable(lprs[lslide][lshape])
  /\ \E r \in {adjust_table(lprs[lslide][lshape], cell_width)} : AfterAdjust(r)

\* if shape.shape_type == MSO_SHAPE_TYPE.GROUP: self._adjust_group(shape)
AdjustGroup ==
  /\ AtShape /\ IsGroup(lprs[lslide][lshape])
  /\ \E r \in {adjust_group(lprs[lslide][lshape])} : AfterAdjust(r)

\* a shape that is none of the three: the pass does nothing
AdjustNothing ==
  /\ AtShape
  /\ ~HasTextFrame(lprs[lslide][lshape]) /\ ~HasTable(lprs[lslide][lshape])
  /\ ~IsGroup(lprs[lslide][lshape])
  /\ lshape' = lshape + 1
  /\ UNCHANGED <<lprs, lorig, slide_width, cell_width, word_wrap, lpc, lslide, lraised,
                 lpass, lfirst, otherThanLayout>>

\* _adjust_slide returns: adjust() goes on to the next slide
AdjustNextSlide ==
  /\ lpc = "shapes" /\ lslide <= Len(lprs) /\ lshape > Len(lprs[lslide])
  /\ lslide' = lslide + 1
  /\ lshape' = 1
  /\ UNCHANGED <<lprs, lorig, slide_width, cell_width, word_wrap, lpc, lraised,
                 lpass, lfirst, otherThanLayout>>

\* the loop over the slides is over: adjust() returns
AdjustReturn ==
  /\ lpc = "shapes" /\ lslide > Len(lprs)
  /\ lpc' = "done"
  /\ UNCHANGED <<lprs, lorig, slide_width, cell_width, word_wrap, lslide, lshape,
                 lraised, lpass, lfirst, otherThanLayout>>

LayoutNext ==
  \/ AdjustTextBox
  \/ AdjustTable
  \/ AdjustGroup
  \/ AdjustNothing
  \/ AdjustNextSlide
  \/ AdjustReturn

SpecLayout == LayoutInit /\ [][LayoutNext]_vars

(***************************************************************************)
(* C10.                                                                    *)
(***************************************************************************)
\* the top-level shapes that have a text frame, each by its slide and place
TextBoxes ==
  UNION {{<<sl, k>> : k \in {j \in 1..Len(lorig[sl]) : HasTextFrame(lorig[sl][j])}} :
           sl \in 1..Len(lorig)}
\* _adjust_text_box has been called on the shape and has returned
Adjusted10(b) == lslide > b[1] \/ (lslide = b[1] /\ lshape > b[2])
\* no sibling lies to the right of the shape as it was before the call and
\* meets its band, the band's edges included
AloneOnBand(b) ==
  \A j \in 1..Len(lorig[b[1]]) :
     (j # b[2] /\ lorig[b[1]][j].geom.xfrm) =>
        \/ lorig[b[1]][j].geom.left < lorig[b[1]][b[2]].geom.left + lorig[b[1]][b[2]].geom.width
        \/ lorig[b[1]][j].geom.top + lorig[b[1]][j].geom.height < lorig[b[1]][b[2]].geom.top
        \/ lorig[b[1]][j].geom.top
             > lorig[b[1]][b[2]].geom.top + lorig[b[1]][b[2]].geom.height

\* C10: a text shape's width is never less than it was before the reflow, at
\* any moment of adjust() and whatever its siblings are; a shape without
\* geometry still has none.
C10_WideningNeverShrinks ==
  \A b \in TextBoxes :
     /\ lprs[b[1]][b[2]].geom.xfrm = lorig[b[1]][b[2]].geom.xfrm
     /\ lprs[b[1]][b[2]].geom.width >= lorig[b[1]][b[2]].geom.width

\* _adjust_text_box has returned for three text shapes of one slide: one with
\* no sibling on its band that was widened, one with no sibling on its band
\* and no room to its right that kept its width, and one that was widened up
\* to a sibling on its band
C10_Witness ==
  \E a \in TextBoxes, b \in TextBoxes, c \in TextBoxes :
     /\ a[1] = b[1] /\ b[1] = c[1]
     /\ Adjusted10(a) /\ Adjusted10(b) /\ Adjusted10(c)
     /\ lorig[a[1]][a[2]].geom.xfrm /\ AloneOnBand(a)
     /\ lprs[a[1]][a[2]].geom.width > lorig[a[1]][a[2]].geom.width
     /\ lorig[b[1]][b[2]].geom.xfrm /\ AloneOnBand(b)
     /\ lprs[b[1]][b[2]].geom.width = lorig[b[1]][b[2]].geom.width
     /\ lprs[b[1]][b[2]].geom.left + lprs[b[1]][b[2]].geom.width + margin > slide_width
     /\ lorig[c[1]][c[2]].geom.xfrm /\ ~AloneOnBand(c)
     /\ lprs[c[1]][c[2]].geom.width > lorig[c[1]][c[2]].geom.width

(***************************************************************************)
(* The fitting step alone: _apply_manual_fit on a text frame for widths    *)
(* and heights that are missing, zero, negative or positive, and           *)
(* _scale_font_size on a text frame for ratios below, at and above one.    *)
(* The sizes are those a file can hold and 0. The 19 narrow characters of  *)
(* 8 points are as wide as 0.95 of the widest box, half of it, and so on:  *)
(* there the rounding of the floating point quotient decides the lines.    *)
(***************************************************************************)
SizedRun(text, size) == Run(text, FALSE, FALSE, FALSE, FALSE, size, NoColor)
L_small ==
  Paragraph(<<SizedRun(<<"A", "B">>, Some(100)), SizedRun(<<"C">>, Some(599)),
              SizedRun(<<"U+3042">>, Some(601))>>, << >>)
L_zero == Paragraph(<<SizedRun(<<"A", "A", "A">>, Some(0)), SizedRun(<<"B">>, Some(4000))>>, << >>)
L_floor == Paragraph(<<SizedRun(<<"A", "A", "A", "A">>, Some(600))>>, << >>)
L_edge == Paragraph(<<SizedRun([k \in 1..19 |-> "A"], Some(800))>>, << >>)

\* the text and the box of test_excessive_shrinking: 427 narrow characters of
\* 12.9 points in a box of 500 by 100 points
TestChars == 427
L_test == Paragraph(<<SizedRun([k \in 1..TestChars |-> "A"], Some(1290))>>, << >>)
TestWidth == 6350000
TestHeight == 1270000

FitTexts ==
  {<< >>, <<L_empty>>, <<P_A>>, <<L_long>>, <<L_wide, P_B>>, <<L_mixed, L_empty>>,
   <<L_small>>, <<L_zero, L_long>>, <<L_floor>>, <<L_test>>, <<L_edge>>}
FitWidths ==
  {None, Some(0), Some(-100), Some(500), Some(100000), Some(139700), Some(200000),
   Some(1117600), Some(TestWidth)}
FitHeights ==
  {None, Some(0), Some(-1), Some(50000), Some(100000), Some(150000), Some(300000),
   Some(700000), Some(914400), Some(TestHeight), Some(1400000)}
\* the ratios 0, 0.25, 0.95 * sqrt(9/16), the square roots of 1/3 and of 2, and 1
FitFactors ==
  {Zero, Hundredths(25),
   FloatMul(Hundredths(95), FloatSqrt(FloatDiv(FloatOf(9), FloatOf(16)))),
   FloatSqrt(FloatDiv(FloatOf(1), FloatOf(3))), FloatOf(1), FloatSqrt(FloatOf(2))}

FitInit ==
  /\ CodecIdle /\ PipeIdle /\ BudgetIdle /\ LayoutIdle /\ GatewayIdle /\ MainIdle
  /\ fit_paragraphs \in FitTexts
  /\ fit_result = fit_paragraphs
  /\ \/ /\ fpc = "fit"
        /\ fit_width \in FitWidths
        /\ fit_height \in FitHeights
        /\ fit_factor = FloatOf(1)
     \/ /\ fpc = "scale"
        /\ fit_width = None
        /\ fit_height = None
        /\ fit_factor \in FitFactors

\* self._apply_manual_fit(text_frame, available_width, available_height)
ApplyManualFit ==
  /\ fpc = "fit"
  /\ fit_result' = apply_manual_fit(fit_paragraphs, fit_width, fit_height)
  /\ fpc' = "fitted"
  /\ UNCHANGED <<fit_paragraphs, fit_width, fit_height, fit_factor, otherThanFit>>

\* self._scale_font_size(text_frame, ratio)
ScaleFontSize ==
  /\ fpc = "scale"
  /\ fit_result' = scale_font_size(fit_paragraphs, fit_factor)
  /\ fpc' = "scaled"
  /\ UNCHANGED <<fit_paragraphs, fit_width, fit_height, fit_factor, otherThanFit>>

FitNext ==
  \/ ApplyManualFit
  \/ ScaleFontSize

SpecFit == FitInit /\ [][FitNext]_vars

(***************************************************************************)
(* C11.                                                                    *)
(***************************************************************************)
\* the runs of the text frame, each by its paragraph and its place in it
FitRuns ==
  UNION {{<<p, r>> : r \in 1..Len(fit_paragraphs[p].runs)} : p \in 1..Len(fit_paragraphs)}
SizeBefore(pr) == fit_paragraphs[pr[1]].runs[pr[2]].size
SizeAfter(pr) == fit_result[pr[1]].runs[pr[2]].size
\* the fitting step has scaled the text frame
FitScaled == fpc = "scaled" \/ (fpc = "fitted" /\ fit_result # fit_paragraphs)

\* C11: once the fitting step has scaled a text frame, every run of it has
\* an explicit font size, of 6 points or more, whatever the ratio and the
\* size it had.
C11_FontFloor ==
  FitScaled => \A pr \in FitRuns : ~IsNone(SizeAfter(pr)) /\ Val(SizeAfter(pr)) >= MinSize

\* _apply_manual_fit has shrunk a text frame: a run without a size has one
\* now, a run was brought up to 6 points and another stays above 6 points
C11_Witness ==
  /\ fpc = "fitted" /\ fit_result # fit_paragraphs
  /\ \E pr \in FitRuns : IsNone(SizeBefore(pr)) /\ Val(SizeAfter(pr)) > MinSize
  /\ \E pr \in FitRuns :
        /\ ~IsNone(SizeBefore(pr)) /\ Val(SizeBefore(pr)) > MinSize
        /\ SizeAfter(pr) = Some(MinSize)

(***************************************************************************)
(* C13.                                                                    *)
(***************************************************************************)
\* the width or the height given to _apply_manual_fit is zero or negative
BadGeometry ==
  \/ ~IsNone(fit_width) /\ Val(fit_width) <= 0
  \/ ~IsNone(fit_height) /\ Val(fit_height) <= 0

\* C13 (as claimed): when the available width or the available height given
\* to the fitting step is zero or negative, the call returns with every font
\* size of the text frame as it was, whatever the text.
C13_GeometryErrorsSkipFitting ==
  (fpc = "fitted" /\ BadGeometry) => fit_result = fit_paragraphs

(***************************************************************************)
(* C22: what the fitting step does to a text that fits, and to one that    *)
(* overflows its box moderately.                                           *)
(***************************************************************************)
\* _apply_manual_fit was called with a width and a height above zero
FittedInBox ==
  /\ fpc = "fitted"
  /\ ~IsNone(fit_width) /\ Val(fit_width) > 0
  /\ ~IsNone(fit_height) /\ Val(fit_height) > 0
\* the least whole number of times 0.95 * the available width that holds the
\* width w, a float
LinesFor(w) ==
  LET q == FloatDiv(w, FloatMul(FloatOf(Val(fit_width)), Hundredths(95)))
  IN CHOOSE n \in {FloatInt(q), FloatInt(q) + 1} :
       ~FloatLess(FloatOf(n), q) /\ FloatLess(FloatOf(n - 1), q)
RECURSIVE LinesOf(_)
\* the lines of the paragraphs, 1 for a paragraph without width
LinesOf(paragraphs) ==
  IF paragraphs = << >> THEN 0
  ELSE LET w == estimate_paragraph_linear_width(Head(paragraphs))
       IN (IF w = Zero THEN 1 ELSE LinesFor(w)) + LinesOf(Tail(paragraphs))
\* the largest font size of the text frame in hundredths of a point, 18
\* points when none is set
LineSize ==
  LET sizes == {Val(fit_paragraphs[pr[1]].runs[pr[2]].size) :
                  pr \in {qr \in FitRuns : ~IsNone(fit_paragraphs[qr[1]].runs[qr[2]].size)}}
      largest == CHOOSE x \in sizes : \A y \in sizes : y <= x
  IN IF sizes = {} \/ largest = 0 THEN DefaultSize ELSE largest
\* the estimated height: lines * (size * 12700 * 1.2), in EMU
EstimatedHeight ==
  FloatMul(FloatOf(LinesOf(fit_paragraphs)),
           FloatMul(FloatMul(PointsOf(LineSize), FloatOf(12700)), Hundredths(120)))
\* the estimated height is at most k times the available height
HeightWithin(k) == ~FloatLess(FloatOf(k * Val(fit_height)), EstimatedHeight)

\* C22: a text whose estimated height is not above the available height
\* keeps every font size; a text whose estimated height is above the
\* available height and at most twice it keeps at least two thirds of
\* every font size (of 18 points for a run without a size); and the 427
\* narrow characters of 12.9 points in the box of 500 by 100 points of
\* test_excessive_shrinking end above 10 points.
C22_FittingTextUntouched ==
  FittedInBox =>
    /\ HeightWithin(1) => fit_result = fit_paragraphs
    /\ (~HeightWithin(1) /\ HeightWithin(2)) =>
          \A pr \in FitRuns :
             3 * Val(SizeAfter(pr))
               >= 2 * (IF IsNone(SizeBefore(pr)) \/ Val(SizeBefore(pr)) = 0
                       THEN DefaultSize ELSE Val(SizeBefore(pr)))
    /\ (fit_paragraphs = <<L_test>> /\ fit_width = Some(TestWidth)
         /\ fit_height = Some(TestHeight)) =>
          Val(SizeAfter(<<1, 1>>)) > 1000

\* the text of test_excessive_shrinking was fitted into its box and into a
\* higher one, where it fits as it is
C22_Witness ==
  /\ FittedInBox /\ fit_paragraphs = <<L_test>> /\ fit_width = Some(TestWidth)
  /\ \/ fit_height = Some(TestHeight) /\ ~HeightWithin(1) /\ HeightWithin(2)
        /\ fit_result # fit_paragraphs
     \/ fit_height = Some(1400000) /\ HeightWithin(1)

(***************************************************************************)
(* C23.                                                                    *)
(***************************************************************************)
\* the size of a run, 18 points for a run without one
NominalSize(size) == IF IsNone(size) THEN DefaultSize ELSE Val(size)

\* C23 (as claimed): after _apply_manual_fit no run is larger than it was,
\* a run without a size counting as 18 points; so also for the runs that
\* were below 6 points already.
C23_NeverEnlarges ==
  fpc = "fitted" =>
    \A pr \in FitRuns : NominalSize(SizeAfter(pr)) <= NominalSize(SizeBefore(pr))

(***************************************************************************)
(* adjust() called a second time on the adjuster once the first call has   *)
(* returned, over presentations of one slide.                              *)
(***************************************************************************)
MaxTwiceShapes == 2

LayoutTwiceInit ==
  /\ CodecIdle /\ PipeIdle /\ BudgetIdle /\ FitIdle /\ GatewayIdle /\ MainIdle
  /\ lprs \in {<<sl>> : sl \in SeqsUpTo(LayoutShapes, MaxTwiceShapes)}
  /\ lorig = lprs
  /\ slide_width \in SlideWidths
  /\ cell_width \in BOOLEAN
  /\ word_wrap = {}
  /\ lpc = "shapes"
  /\ lslide = 1
  /\ lshape = 1
  /\ lraised = ""
  /\ lpass = 1
  /\ lfirst = << >>

\* adjuster.adjust() once more, after adjust() has returned
AdjustAgain ==
  /\ lpc = "done" /\ lpass = 1
  /\ lpass' = 2
  /\ lfirst' = lprs
  /\ lpc' = "shapes"
  /\ lslide' = 1
  /\ lshape' = 1
  /\ UNCHANGED <<lprs, lorig, slide_width, cell_width, word_wrap, lraised, otherThanLayout>>

LayoutTwiceNext ==
  \/ AdjustTextBox
  \/ AdjustTable
  \/ AdjustGroup
  \/ AdjustNothing
  \/ AdjustNextSlide
  \/ AdjustReturn
  \/ AdjustAgain

SpecLayoutTwice == LayoutTwiceInit /\ [][LayoutTwiceNext]_vars

(***************************************************************************)
(* C12.                                                                    *)
(***************************************************************************)
\* C12 (as claimed): at every moment of a second call of adjust() the
\* shapes are as the first call left them: no width and no font size has
\* changed (widths and font sizes are all that adjust() writes in a shape).
C12_ReflowIdempotent == lpass = 2 => lprs = lfirst

(***************************************************************************)
(* C20: the obstruction test of the widening, under SpecLayout.            *)
(***************************************************************************)
\* the shape the loop of _adjust_slide is at, and its slide
AtTextBox == AtShape /\ HasTextFrame(lprs[lslide][lshape])
AllPlaced(slide) == \A j \in 1..Len(slide) : slide[j].geom.xfrm
Bottom(g) == g.top + g.height
RightEdge(g) == g.left + g.width

\* the vertical spans of two shapes overlap, as open intervals: touching
\* edges do not count
SpansOverlap(g, o) == o.top < Bottom(g) /\ Bottom(o) > g.top
\* the vertical spans of two shapes meet, as closed intervals: touching
\* edges count
SpansMeet(g, o) == o.top <= Bottom(g) /\ Bottom(o) >= g.top

\* where the widening of slide[i] has to end: the least left edge of the
\* siblings at or beyond its right edge that the band test lets count, or the
\* slide's right edge, less the margin
WidenedRight(slide, i, Band(_, _)) ==
  SetMin({slide_width}
         \cup {slide[j].geom.left :
                 j \in {k \in 1..Len(slide) :
                          /\ k # i
                          /\ slide[k].geom.left >= RightEdge(slide[i].geom)
                          /\ Band(slide[i].geom, slide[k].geom)}}) - margin
\* the width _adjust_text_box leaves: the widened one, and never a smaller one
WidthFor(slide, i, Band(_, _)) ==
  IF WidenedRight(slide, i, Band) - slide[i].geom.left > slide[i].geom.width
  THEN WidenedRight(slide, i, Band) - slide[i].geom.left
  ELSE slide[i].geom.width

\* C20 (as claimed): a sibling limits the widening of a text shape exactly
\* when its left edge is at or beyond the shape's right edge and the
\* vertical spans overlap as open intervals; the widened right edge is the
\* least left edge of these siblings (the slide's right edge if there is
\* none) less the margin.
C20_OpenIntervalObstruction ==
  [][(AtTextBox /\ AllPlaced(lprs[lslide])) =>
        lprs'[lslide][lshape].geom.width = WidthFor(lprs[lslide], lshape, SpansOverlap)]_vars

\* C20 (amended): the vertical spans are compared as closed intervals, so a
\* sibling that only touches the top or bottom edge limits the widening too;
\* and when a shape of the slide has no position and size the text shape
\* keeps its width.
C20_ClosedIntervalObstruction ==
  [][AtTextBox =>
        lprs'[lslide][lshape].geom.width
          = IF AllPlaced(lprs[lslide])
            THEN WidthFor(lprs[lslide], lshape, SpansMeet)
            ELSE lprs[lslide][lshape].geom.width]_vars

\* a text shape has been widened up to the margin before a sibling that only
\* touches the bottom edge of its band
C20_Witness ==
  /\ lpc = "done"
  /\ \E s \in 1..Len(lorig) :
       /\ AllPlaced(lorig[s])
       /\ \E i, j \in 1..Len(lorig[s]) :
            /\ i # j /\ HasTextFrame(lorig[s][i])
            /\ lorig[s][j].geom.left >= RightEdge(lorig[s][i].geom)
            /\ lorig[s][j].geom.top = Bottom(lorig[s][i].geom)
            /\ lprs[s][i].geom.width > lorig[s][i].geom.width
            /\ RightEdge(lprs[s][i].geom) = lorig[s][j].geom.left - margin

(***************************************************************************)
(* Translator.translate_batch, call by call: the call at the head of       *)
(* gw_calls is made, and a call that splits its batch puts the calls for   *)
(* the two halves in its place. The service may do anything with a         *)
(* request: fail, fail for the length of the context, answer with the ids  *)
(* asked for, or answer with another id.                                   *)
(***************************************************************************)
MaxGatewayItems == 3

\* an item as the docstring of translate_batch describes it, and one as
\* _process_batch sends it
KeyedItem(i) == [id |-> i, text |-> TextItems(<<"A">>), max_chars |-> 7]
PayloadItem(i) == [id |-> i, text |-> TextItems(<<"A">>), limit |-> 7]
GatewayBatches ==
  {[k \in 1..n |-> KeyedItem(k - 1)] : n \in 0..MaxGatewayItems}
  \cup {<<KeyedItem(0), PayloadItem(1)>>}
GatewayTemplates ==
  {"", PipeConfig.presentation_body_prompt, PipeConfig.constrained_text_prompt}
GatewayOutcomes(ids) ==
  {Error("context_length_exceeded"), Error("maximum context length"),
   Error("Connection error."), Content(JList(Echo(ids))),
   Content(JList(<<ResultDict(Some(SeqMax(ids) + 1), None, Some(TrA(SeqMax(ids) + 1)))>>))}

GatewayCall(items, template) == [items |-> items, template |-> template]
\* self.base_system_prompt, from config.translation_prompt
BaseSystemPrompt == PipeConfig.presentation_body_prompt

GatewayInit ==
  /\ CodecIdle /\ PipeIdle /\ BudgetIdle /\ LayoutIdle /\ FitIdle /\ MainIdle
  /\ gw_items \in GatewayBatches
  /\ gw_template \in GatewayTemplates
  /\ gw_calls = <<GatewayCall(gw_items, gw_template)>>
  /\ gw_backend = << >>
  /\ gw_requests = << >>
  /\ gw_result = << >>
  /\ gw_raised = ""
  /\ gpc = "call"

\* the call to be made next, and the request it sends
Calling == gpc = "call" /\ gw_calls # << >>
ThisCall == gw_calls[1]
HasKeys(items) ==
  \A k \in 1..Len(items) : {"id", "text", "max_chars"} \subseteq DOMAIN items[k]
Sending == Calling /\ ThisCall.items # << >> /\ HasKeys(ThisCall.items)
ThisRequest ==
  [prompt |-> IF ThisCall.template # "" THEN ThisCall.template ELSE BaseSystemPrompt,
   ids |-> ItemIds(ThisCall.items)]
\* the request is sent and the service does outcome with it
Sent(outcome) ==
  /\ gw_requests' = Append(gw_requests, ThisRequest)
  /\ gw_backend' = (ThisRequest.ids :> outcome) @@ gw_backend

\* if not items: return []
CallEmpty ==
  /\ Calling /\ ThisCall.items = << >>
  /\ gw_calls' = Tail(gw_calls)
  /\ UNCHANGED <<gw_items, gw_template, gw_backend, gw_requests, gw_result, gw_raised,
                 gpc, otherThanGateway>>

\* item["max_chars"] of an item without the key: the KeyError leaves every
\* call of translate_batch that is under way
CallKeyError ==
  /\ Calling /\ ThisCall.items # << >> /\ ~HasKeys(ThisCall.items)
  /\ gw_calls' = << >>
  /\ gw_result' = << >>
  /\ gw_raised' = "KeyError"
  /\ gpc' = "done"
  /\ UNCHANGED <<gw_items, gw_template, gw_backend, gw_requests, otherThanGateway>>

\* the service answers: the list found in the content is returned
CallAnswered ==
  /\ Sending
  /\ \E outcome \in GatewayOutcomes(ThisRequest.ids) :
        /\ outcome.k = "content"
        /\ Sent(outcome)
        /\ gw_result' = gw_result \o parse_content(outcome.content)
  /\ gw_calls' = Tail(gw_calls)
  /\ UNCHANGED <<gw_items, gw_template, gw_raised, gpc, otherThanGateway>>

\* the split with mid = 0: the left part empty, the right part the batch
CallSplit_at_zero ==
  /\ Sending /\ Len(ThisCall.items) > 1
  /\ \E outcome \in GatewayOutcomes(ThisRequest.ids) :
        /\ outcome.k = "error" /\ IsContextLength(outcome.msg)
        /\ Sent(outcome)
  /\ gw_calls' = <<GatewayCall(Take(ThisCall.items, 0), ""),
                   GatewayCall(Drop(ThisCall.items, 0), "")>>
                 \o Tail(gw_calls)
  /\ UNCHANGED <<gw_items, gw_template, gw_result, gw_raised, gpc, otherThanGateway>>

\* a context length error for more than one item:
\* return self.translate_batch(left) + self.translate_batch(right)
CallSplit ==
  /\ Sending /\ Len(ThisCall.items) > 1
  /\ \E outcome \in GatewayOutcomes(ThisRequest.ids) :
        /\ outcome.k = "error" /\ IsContextLength(outcome.msg)
        /\ Sent(outcome)
  /\ gw_calls' = <<GatewayCall(Take(ThisCall.items, Len(ThisCall.items) \div 2), ""),
                   GatewayCall(Drop(ThisCall.items, Len(ThisCall.items) \div 2), "")>>
                 \o Tail(gw_calls)
  /\ UNCHANGED <<gw_items, gw_template, gw_result, gw_raised, gpc, otherThanGateway>>

\* any other error, or a context length error for one item: return []
CallFailed ==
  /\ Sending
  /\ \E outcome \in GatewayOutcomes(ThisRequest.ids) :
        /\ outcome.k = "error"
        /\ ~(IsContextLength(outcome.msg) /\ Len(ThisCall.items) > 1)
        /\ Sent(outcome)
  /\ gw_calls' = Tail(gw_calls)
  /\ UNCHANGED <<gw_items, gw_template, gw_result, gw_raised, gpc, otherThanGateway>>

\* no call is left: the first call returns
GatewayReturn ==
  /\ gpc = "call" /\ gw_calls = << >>
  /\ gpc' = "done"
  /\ UNCHANGED <<gw_items, gw_template, gw_calls, gw_backend, gw_requests, gw_result,
                 gw_raised, otherThanGateway>>

GatewayNext ==
  \/ CallEmpty
  \/ CallKeyError
  \/ CallAnswered
  \/ CallSplit
  \/ CallFailed
  \/ GatewayReturn

SpecGateway == GatewayInit /\ [][GatewayNext]_vars
\* calls are made as long as there are any
FairGateway == SpecGateway /\ WF_vars(GatewayNext)

\* the calls, one by one, give what translate_batch gives as a whole
GatewayAsAWhole ==
  gpc = "done" =>
     translate_batch(gw_items, gw_template, BaseSystemPrompt, gw_backend)
       = GatewayResult(gw_result, gw_raised, gw_requests)

\* C21 (as claimed): every request of a call made with the constrained
\* prompt template, those for the parts of a split batch included, carries
\* the constrained template, and every request of a call made with the body
\* template carries the body template.
C21_ContextPrompt ==
  \A k \in 1..Len(gw_requests) :
     /\ gw_template = PipeConfig.constrained_text_prompt =>
          gw_requests[k].prompt = PipeConfig.constrained_text_prompt
     /\ gw_template = PipeConfig.presentation_body_prompt =>
          gw_requests[k].prompt = PipeConfig.presentation_body_prompt

(***************************************************************************)
(* C27: the recursion of translate_batch on context length errors, under   *)
(* FairGateway.                                                            *)
(***************************************************************************)
\* the service has answered the request of this step with a context length
\* error
LengthError ==
  /\ Sending /\ Len(gw_requests') = Len(gw_requests) + 1
  /\ gw_backend'[ThisRequest.ids].k = "error"
  /\ IsContextLength(gw_backend'[ThisRequest.ids].msg)
\* the call of this step calls translate_batch again
Recursing == Calling /\ Len(gw_calls') > Len(gw_calls) - 1
\* each call added is for a non-empty part of the batch of this call, smaller
\* than it, and the two parts make up the batch
SmallerParts ==
  /\ Len(gw_calls') = Len(gw_calls) + 1
  /\ \A k \in 1..2 : /\ gw_calls'[k].items # << >>
                      /\ Len(gw_calls'[k].items) < Len(ThisCall.items)
  /\ gw_calls'[1].items \o gw_calls'[2].items = ThisCall.items
\* the ids of the elements of a result
ResultIds(result) ==
  {Val(result[k].id) : k \in {j \in 1..Len(result) :
                                 result[j].k = "dict" /\ ~IsNone(result[j].id)}}
\* what the service answered to the k-th request, as translate_batch reads it
AnswerTo(k) ==
  IF gw_backend[gw_requests[k].ids].k = "content"
  THEN parse_content(gw_backend[gw_requests[k].ids].content)
  ELSE << >>
\* the service answered every request with ids of that request only
AnswersKeepIds ==
  \A k \in 1..Len(gw_requests) :
     ResultIds(AnswerTo(k)) \subseteq {gw_requests[k].ids[j] : j \in 1..Len(gw_requests[k].ids)}

SplitTerminates == <>(gpc = "done")
SplitShrinks == [][Recursing => (LengthError /\ Len(ThisCall.items) > 1 /\ SmallerParts)]_vars
OneItemReturnsEmpty ==
  [][(LengthError /\ Len(ThisCall.items) = 1) =>
        (gw_calls' = Tail(gw_calls) /\ gw_result' = gw_result)]_vars

\* C27 (as claimed): with a service that may answer any request with a
\* context length error, translate_batch returns for every batch; each call
\* it makes of itself is for a non-empty part of its batch smaller than the
\* batch; a call for one item returns the empty list without calling again;
\* and the result has no id that was not in the batch.
C27_SplitTerminatesWithinBatch ==
  /\ SplitTerminates
  /\ SplitShrinks
  /\ OneItemReturnsEmpty
  /\ [](gpc = "done" =>
         ResultIds(gw_result) \subseteq {gw_items[k].id : k \in 1..Len(gw_items)})

\* C27 (amended): the same without the last part. Instead: the result is
\* what the service answered to the requests, one after the other in the
\* order they were sent (nothing when an item lacks a key and the call
\* raises), so it has no id from outside the batch when the service
\* answered every request with ids of that request only.
C27_SplitTerminatesWithAnswers ==
  /\ SplitTerminates
  /\ SplitShrinks
  /\ OneItemReturnsEmpty
  /\ [](gpc = "done" =>
         /\ gw_result = IF gw_raised # "" THEN << >>
                        ELSE Concat([k \in 1..Len(gw_requests) |-> AnswerTo(k)])
         /\ AnswersKeepIds =>
              ResultIds(gw_result) \subseteq {gw_items[k].id : k \in 1..Len(gw_items)})

\* a batch of three has been split twice, the one-item parts that met the
\* error gave nothing, and the result is the answer for the last part
C27_Witness ==
  /\ gpc = "done" /\ Len(gw_items) = 3
  /\ Len(gw_requests) = 5
  /\ gw_requests[2].ids = <<0>> /\ gw_backend[<<0>>].k = "error"
  /\ IsContextLength(gw_backend[<<0>>].msg)
  /\ gw_requests[3].ids = <<1, 2>> /\ IsContextLength(gw_backend[<<1, 2>>].msg)
  /\ gw_result = Echo(<<2>>)

(***************************************************************************)
(* C24: the reflow and the walker on the same slides, under SpecLayout.    *)
(***************************************************************************)
\* the text containers of a slide whose paragraphs the walker collects as
\* 'constrained', each by the path of the walker without the paragraph
ConstrainedContainers(shapes) ==
  {Take(slide_tasks(shapes)[k].paragraph, Len(slide_tasks(shapes)[k].paragraph) - 1) :
     k \in {j \in 1..Len(slide_tasks(shapes)) :
              slide_tasks(shapes)[j].context = "constrained"}}
RECURSIVE ShapeAt(_, _)
\* the shape that holds the container: the table of a cell, the group member
\* of a text frame
ShapeAt(shapes, path) ==
  IF shapes[path[1]].kind = "group" /\ Len(path) > 1
  THEN ShapeAt(shapes[path[1]].shapes, Tail(path))
  ELSE shapes[path[1]]

\* C24 (as claimed): when adjust() has returned, every text container whose
\* paragraphs the walker collects as 'constrained' (a table cell, the text
\* frame of a group member at any depth, a cell of a table in a group) has
\* had its word wrap set and gone through _apply_manual_fit, and neither
\* the shape that holds it nor the top-level shape above it has another
\* place or size than before.
C24_ReflowCoversConstrained ==
  lpc = "done" =>
    \A s \in 1..Len(lorig) : \A c \in ConstrainedContainers(lorig[s]) :
       /\ <<s>> \o c \in word_wrap
       /\ ShapeAt(lprs[s], c).geom = ShapeAt(lorig[s], c).geom
       /\ lprs[s][c[1]].geom = lorig[s][c[1]].geom

(***************************************************************************)
(* SpecMain: main() of the command line as a step machine over the files   *)
(* of a directory. A path is the sequence of the pieces of its name, no     *)
(* piece being the start of another, so two paths are the same string       *)
(* exactly when they are the same sequence; a piece that starts with a dot  *)
(* is an extension. Config, the translator, process() and adjust() are     *)
(* steps that return or raise; save(path) creates or overwrites the file.  *)
(***************************************************************************)
Extensions == {".pptx"}
Deck == <<"deck", ".pptx">>
Paths ==
  {Deck, <<"deck">>, <<"deck", "_translated", ".pptx">>,
   <<"deck", "_translated", "_raw", ".pptx">>, <<"deck", "_translated", "_raw">>,
   <<"out", ".pptx">>}
InputPaths == {Deck, <<"deck">>, <<"deck", "_translated", ".pptx">>}

\* os.path.splitext(path): the name without its extension, and the extension
splitext(path) ==
  IF Len(path) > 1 /\ path[Len(path)] \in Extensions
  THEN [filename |-> SubSeq(path, 1, Len(path) - 1), ext |-> <<path[Len(path)]>>]
  ELSE [filename |-> path, ext |-> << >>]

\* f"{filename}_translated_raw{ext}"
intermediate_file ==
  splitext(input_file).filename \o <<"_translated", "_raw">> \o splitext(input_file).ext

\* args.output or f"{filename}_translated{ext}"
output_file ==
  IF ~IsNone(output) /\ Val(output) # << >> THEN Val(output)
  ELSE splitext(input_file).filename \o <<"_translated">> \o splitext(input_file).ext

MainInit ==
  /\ files \in SUBSET Paths
  /\ input_file \in InputPaths
  /\ output \in {None} \cup {Some(p) : p \in Paths \cup {<< >>}}
  /\ mainpc = "validate"
  /\ exit_code = None
  /\ reported = None
  /\ CodecIdle /\ PipeIdle /\ BudgetIdle /\ LayoutIdle /\ FitIdle /\ GatewayIdle

\* if not os.path.exists(args.input_file): ... sys.exit(1)
Validate ==
  /\ mainpc = "validate"
  /\ IF input_file \in files
     THEN mainpc' = "initialize" /\ UNCHANGED exit_code
     ELSE mainpc' = "exit" /\ exit_code' = Some(1)
  /\ UNCHANGED <<files, input_file, output, reported, otherThanMain>>

\* Config(args.config), load_glossary, the translator
Initialize ==
  /\ mainpc = "initialize"
  /\ mainpc' = "process"
  /\ UNCHANGED <<files, input_file, output, exit_code, reported, otherThanMain>>

\* PPTXProcessor(args.input_file, translator); processor.process()
Process ==
  /\ mainpc = "process"
  /\ mainpc' = "save_raw"
  /\ UNCHANGED <<files, input_file, output, exit_code, reported, otherThanMain>>

\* processor.save(intermediate_file)
SaveIntermediate ==
  /\ mainpc = "save_raw"
  /\ files' = files \cup {intermediate_file}
  /\ mainpc' = "adjust"
  /\ UNCHANGED <<input_file, output, exit_code, reported, otherThanMain>>

\* LayoutAdjuster(intermediate_file); adjuster.adjust()
Adjust ==
  /\ mainpc = "adjust"
  /\ intermediate_file \in files
  /\ mainpc' = "save"
  /\ UNCHANGED <<files, input_file, output, exit_code, reported, otherThanMain>>

\* adjuster.save(output_file)
SaveOutput ==
  /\ mainpc = "save"
  /\ files' = files \cup {output_file}
  /\ mainpc' = "cleanup"
  /\ UNCHANGED <<input_file, output, exit_code, reported, otherThanMain>>

\* if os.path.exists(intermediate_file): os.remove(intermediate_file)
CleanUp ==
  /\ mainpc = "cleanup"
  /\ files' = files \ {intermediate_file}
  /\ mainpc' = "report"
  /\ UNCHANGED <<input_file, output, exit_code, reported, otherThanMain>>

\* print(f"Done! Saved translated file to '{output_file}'."), and main returns
Report ==
  /\ mainpc = "report"
  /\ reported' = Some(output_file)
  /\ exit_code' = Some(0)
  /\ mainpc' = "exit"
  /\ UNCHANGED <<files, input_file, output, otherThanMain>>

\* except Exception: a step of the try block raises; sys.exit(1)
Except ==
  /\ mainpc \in {"initialize", "process", "save_raw", "adjust", "save", "cleanup"}
  /\ mainpc' = "exit"
  /\ exit_code' = Some(1)
  /\ UNCHANGED <<files, input_file, output, reported, otherThanMain>>

MainNext ==
  \/ Validate
  \/ Initialize
  \/ Process
  \/ SaveIntermediate
  \/ Adjust
  \/ SaveOutput
  \/ CleanUp
  \/ Report
  \/ Except

SpecMain == MainInit /\ [][MainNext]_vars

\* C26 (as claimed): whenever main finishes with exit code 0 and has reported
\* 'Done', the file exists at the path it reported, whatever --output was,
\* the path of the intermediate file included.
C26_OutputExistsOnSuccess ==
  (mainpc = "exit" /\ exit_code = Some(0) /\ ~IsNone(reported)) =>
     Val(reported) \in files

====
